---------------------------- MODULE Spec2Model ----------------------------
(***************************************************************************)
(* A model of the tessdb-tools command line utilities                      *)
(* (src/src/tessdb/tools): MAC canonicalisation (utils.py), the            *)
(* name_to_mac_t history walks and the photometer classification           *)
(* (tessdb.py), the MongoDB REST helpers (mongodb.py), and the             *)
(* reconciliation of two databases by MAC (dbutils.py, zptess.py,          *)
(* idadb.py, adhoc.py).                                                    *)
(*                                                                         *)
(* Strings are sequences of one-character strings; a database row, a CSV   *)
(* row and a JSON object are records.                                      *)
(***************************************************************************)
EXTENDS Integers, Sequences, FiniteSets, TLC

VARIABLES
    \* ---- utils.py / MAC matching ----
    macPc,      \* "idle" | "input" | "formatted" | "matched"
    mac1,       \* a MAC string as one store spells it
    mac2,       \* the same device address as another store spells it
    fmt1,       \* formatted_mac(mac1): [err, val]
    fmt2,       \* formatted_mac(mac2): [err, val]
    refmt,      \* formatted_mac applied to the value of fmt1
    tool,       \* the tool that matched mac1 against mac2
    matched     \* whether that tool treated mac1 and mac2 as one photometer

VARIABLES
    \* ---- tessdb.py: name_to_mac_t, classification, history command ----
    table,          \* name_to_mac_t: its rows by valid_since, ties in rowid order
    histPc,         \* "idle" | "classified" | "walking" | "walked" | "reported" | "crashed"
    classification, \* the PHOTOMETER_TYPE asked for, or "none"
    selStatus,      \* "none" | "done" | "hang" | "IndexError"
    selected,       \* the list selected_name_mac_list returned
    total,          \* photometers_complicated: its local total, as a set
    only_repaired,  \* photometers_complicated: its local only_repaired, as a set
    only_renamed,   \* photometers_complicated: its local only_renamed, as a set
    hArgs,          \* history command: [name, mac], one of them None
    history,        \* history command: the current history, rows with their flag
    truncated,      \* history command: whether the last current row is Expired
    break_end_tstamps,
    break_start_tstamps,
    todo,           \* the related-history calls still to make: [tag, tstamp]
    hTstamp,        \* the running call's params["tstamp"]
    hAcc,           \* the running call's local history
    hQueries,       \* the number of queries the running call has executed
    sections,       \* the finished calls: [tag, tstamp, rows, complicated]
    global_history, \* the rows written to the CSV file
    console         \* the rows logged, banner by banner

VARIABLES
    \* ---- mongodb.py: one run of a command against the REST API ----
    updPc,             \* "idle" | "start" | "loop" | "done" | "aborted"
    cmd,               \* the function the command line selects
    simulated,         \* the simulated flag the entry point passes
    names,             \* args.names, as a set ({}: no --names)
    names_list,        \* what POST /photometers_list answers: [name, mac]
    details_list,      \* what GET /photometers answers: [name]
    csv,               \* the rows read_csv returns: [name, mac]
    mongo_input_list,  \* the list correlated from the two responses
    correlated,        \* the number of entries mongo_get_all gave a mac
    mongo_output_list, \* the CSV rows the loop goes through
    idx,               \* the position of the loop in mongo_output_list
    error,             \* the exception that ended the run, or "none"
    attempts,          \* the calls of mongo_api_update / mongo_api_create: [idx, err]
    requests,          \* the create/update requests sent: [method, name, mac, response]
    printed,           \* the requests a simulated run printed instead
    log,               \* the error and warning log: [level, name]
    files              \* the CSV files written: [path, rows]

VARIABLES
    \* ---- zptess.py, idadb.py, adhoc.py: two stores reconciled by MAC ----
    dbPc,             \* "idle" | "read"
    tessdb_db,        \* the rows the tool's query on tessdb returns
    zptess_db,        \* the rows the tool's query on zptess returns
    idadb_db,         \* the rows the tool's query on idadb returns
    ran,              \* the entry points that have run
    common_macs,      \* generate_common: its local common_macs
    only_tessdb_macs, \* generate_tessdb: its local only_tessdb_macs
    only_zptess_macs, \* generate_zptess: its local only_zptess_macs
    fix_items,        \* adhoc fix: its local items
    ida_output,       \* idadb generate_common: the dict handed to write_csv
    group_input,      \* a list handed to group_by, None rows included
    grouped,          \* what group_by returned for it
    flattened         \* what filter_and_flatten returned for grouped

macVars == <<macPc, mac1, mac2, fmt1, fmt2, refmt, tool, matched>>

dbVars ==
    <<dbPc, tessdb_db, zptess_db, idadb_db, ran, common_macs, only_tessdb_macs,
      only_zptess_macs, fix_items, ida_output, group_input, grouped, flattened>>

selVars == <<classification, selStatus, selected, total, only_repaired, only_renamed>>

cmdVars ==
    <<hArgs, history, truncated, break_end_tstamps, break_start_tstamps, todo, hTstamp, hAcc,
      hQueries, sections, global_history, console>>

histVars == <<table, histPc, selVars, cmdVars>>

mongoVars ==
    <<updPc, cmd, simulated, names, names_list, details_list, csv, mongo_input_list,
      correlated, mongo_output_list, idx, error, attempts, requests, printed, log, files>>

vars == <<macVars, histVars, mongoVars, dbVars>>

-----------------------------------------------------------------------------
(***************************************************************************)
(* Generic sequence helpers.                                               *)
(***************************************************************************)
Front(s) == SubSeq(s, 1, Len(s) - 1)

Last(s) == s[Len(s)]

Range(s) == {s[i] : i \in 1 .. Len(s)}

RECURSIVE SeqsUpTo(_, _)
\* every sequence over S of length 0 .. n
SeqsUpTo(S, n) ==
    IF n = 0 THEN {<<>>}
    ELSE LET shorter == SeqsUpTo(S, n - 1)
         IN  shorter \cup {Append(s, x) : s \in {t \in shorter : Len(t) = n - 1}, x \in S}

-----------------------------------------------------------------------------
(***************************************************************************)
(* utils.py: formatted_mac                                                 *)
(***************************************************************************)

\* Bound: the number of colon-separated groups of an input MAC string.
MaxGroups == 2

\* The lengths of the groups of an input MAC string.
GroupLens == 0 .. 2

\* The characters input MAC strings are written with: hexadecimal digits in
\* both cases, a character that is no hexadecimal digit, and the sign int()
\* accepts in front of the digits.
Chars == {"0", "a", "A", "g", "-"}

UpperDigits ==
    <<"0", "1", "2", "3", "4", "5", "6", "7", "8", "9", "A", "B", "C", "D", "E", "F">>

LowerDigits ==
    <<"0", "1", "2", "3", "4", "5", "6", "7", "8", "9", "a", "b", "c", "d", "e", "f">>

IsHexChar(c) == \E i \in 1 .. 16 : UpperDigits[i] = c \/ LowerDigits[i] = c

\* the value of one hexadecimal digit, either case
HexVal(c) == (CHOOSE i \in 1 .. 16 : UpperDigits[i] = c \/ LowerDigits[i] = c) - 1

RECURSIVE ParseDigits(_)
ParseDigits(s) ==
    IF s = <<>> THEN 0 ELSE 16 * ParseDigits(Front(s)) + HexVal(Last(s))

\* int(x, 16) raises ValueError unless x is an optional sign followed by at
\* least one hexadecimal digit
IsHexGroup(x) ==
    LET digits == IF x # <<>> /\ x[1] = "-" THEN Tail(x) ELSE x
    IN  /\ digits # <<>>
        /\ \A i \in 1 .. Len(digits) : IsHexChar(digits[i])

\* int(x, 16) of an accepted group
ParseGroup(x) ==
    IF x[1] = "-" THEN 0 - ParseDigits(Tail(x)) ELSE ParseDigits(x)

RECURSIVE HexUpper(_)
\* the upper-case hexadecimal digits of n >= 0, without padding
HexUpper(n) ==
    IF n < 16 THEN <<UpperDigits[n + 1]>>
    ELSE HexUpper(n \div 16) \o <<UpperDigits[(n % 16) + 1]>>

\* f"{n:02X}": upper-case hexadecimal, zero-padded to a width of two, the
\* sign counting in the width
FormatGroup(n) ==
    IF n < 0 THEN <<"-">> \o HexUpper(0 - n)
    ELSE LET h == HexUpper(n) IN IF Len(h) < 2 THEN <<"0">> \o h ELSE h

RECURSIVE SplitMac(_)
\* mac.split(":")
SplitMac(s) ==
    IF s = <<>> THEN << <<>> >>
    ELSE LET r == SplitMac(Front(s))
         IN  IF Last(s) = ":" THEN Append(r, <<>>)
             ELSE [r EXCEPT ![Len(r)] = Append(@, Last(s))]

RECURSIVE JoinMac(_)
\* ":".join(groups)
JoinMac(groups) ==
    IF Len(groups) = 0 THEN <<>>
    ELSE IF Len(groups) = 1 THEN groups[1]
    ELSE JoinMac(Front(groups)) \o <<":">> \o Last(groups)

ValueError(s) == [err |-> "ValueError", val |-> s]

Returned(s) == [err |-> "none", val |-> s]

\* utils.py formatted_mac with the letter case of the input kept
formatted_mac_keeping_case(mac) ==
    LET groups == SplitMac(mac)
        pad(x) == IF x[1] # "-" /\ Len(x) < 2 THEN <<"0">> \o x ELSE x
    IN  IF \E i \in 1 .. Len(groups) : ~IsHexGroup(groups[i])
        THEN ValueError(mac)
        ELSE Returned(JoinMac([i \in 1 .. Len(groups) |-> pad(groups[i])]))

\* utils.py formatted_mac
formatted_mac(mac) ==
    LET groups == SplitMac(mac)
    IN  IF \E i \in 1 .. Len(groups) : ~IsHexGroup(groups[i])
        THEN ValueError(mac)
        ELSE Returned(JoinMac([i \in 1 .. Len(groups) |->
                                  FormatGroup(ParseGroup(groups[i]))]))

\* utils.py is_tess_mac: every group parses with int(x, 16) and there are
\* six of them
TessMacGroups == 6

is_tess_mac(mac) ==
    LET mac_list == SplitMac(mac)
    IN  /\ \A i \in 1 .. Len(mac_list) : IsHexGroup(mac_list[i])
        /\ Len(mac_list) = TessMacGroups

\* utils.py is_mac
StrictMacLen == 17

is_mac(mac) == is_tess_mac(mac) /\ Len(mac) = StrictMacLen

\* str.islower(): a cased character, and no upper-case one
islower(x) ==
    /\ \E i \in 1 .. Len(x) : x[i] \in {"a", "b", "c", "d", "e", "f", "g"}
    /\ \A i \in 1 .. Len(x) : x[i] \notin {"A", "B", "C", "D", "E", "F", "G"}

\* the numbers the groups of an accepted MAC string denote
MacNumbers(mac) ==
    LET groups == SplitMac(mac)
    IN  [i \in 1 .. Len(groups) |-> ParseGroup(groups[i])]

Accepted(mac) == formatted_mac(mac).err = "none"

-----------------------------------------------------------------------------
(***************************************************************************)
(* dbutils.py: grouping and key reconciliation.  A Python dict is a        *)
(* sequence of [k, v] entries in insertion order; None is NoneRow.         *)
(***************************************************************************)
NoneRow == [none |-> TRUE]

DictKeys(d) == {d[i].k : i \in 1 .. Len(d)}

DictGet(d, key) == d[CHOOSE i \in 1 .. Len(d) : d[i].k = key].v

RECURSIVE group_by(_, _)
\* dbutils.py group_by with result[row[key]] = [row] in place of the append
group_by_overwriting(iterable, key) ==
    IF iterable = <<>> THEN <<>>
    ELSE LET result == group_by(Front(iterable), key)
             row == Last(iterable)
         IN  IF row = NoneRow THEN result
             ELSE IF row[key] \in DictKeys(result)
             THEN LET i == CHOOSE j \in 1 .. Len(result) : result[j].k = row[key]
                  IN  [result EXCEPT ![i].v = <<row>>]
             ELSE Append(result, [k |-> row[key], v |-> <<row>>])

\* dbutils.py group_by: None rows are skipped, every other row is appended
\* to the list of its own row[key]
group_by(iterable, key) ==
    IF iterable = <<>> THEN <<>>
    ELSE LET result == group_by(Front(iterable), key)
             row == Last(iterable)
         IN  IF row = NoneRow THEN result
             ELSE IF row[key] \in DictKeys(result)
             THEN LET i == CHOOSE j \in 1 .. Len(result) : result[j].k = row[key]
                  IN  [result EXCEPT ![i].v = Append(@, row)]
             ELSE Append(result, [k |-> row[key], v |-> <<row>>])

group_by_mac(iterable) == group_by(iterable, "mac")

group_by_name(iterable) == group_by(iterable, "name")

common_A_B_items(map_A, map_B) == DictKeys(map_A) \cap DictKeys(map_B)

\* dbutils.py in_A_not_in_B without the set difference
in_A_whatever_in_B(map_A, map_B) == DictKeys(map_A)

in_A_not_in_B(map_A, map_B) == DictKeys(map_A) \ DictKeys(map_B)

-----------------------------------------------------------------------------
(***************************************************************************)
(* How each tool keys the rows of two stores by MAC before matching them.  *)
(* Each store holds one row of the device; the row carries its MAC string. *)
(***************************************************************************)
PhotRow(mac) == [mac |-> mac]

\* zptess.py tessdb_remap_info: the row with its MAC formatted, None when
\* formatted_mac raises
zptess_tessdb_remap_info(row) ==
    LET f == formatted_mac(row.mac)
    IN  IF f.err # "none" THEN NoneRow ELSE [row EXCEPT !.mac = f.val]

\* zptess.py zptess_remap_info
zptess_remap_info(row) ==
    LET f == formatted_mac(row.mac)
    IN  IF f.err # "none" THEN NoneRow ELSE [row EXCEPT !.mac = f.val]

\* idadb.py tessdb_remap_info
idadb_tessdb_remap_info(row) ==
    LET f == formatted_mac(row.mac)
    IN  IF f.err # "none" THEN NoneRow ELSE [row EXCEPT !.mac = f.val]

\* idadb.py ida_remap_info
ida_remap_info(row) ==
    LET f == formatted_mac(row.mac)
    IN  IF f.err # "none" THEN NoneRow ELSE [row EXCEPT !.mac = f.val]

\* zptess.py generate_common: the MACs found in both stores
zptess_common_macs(tessdb_rows, zptess_rows) ==
    LET tessdb_input_list ==
            group_by_mac([i \in 1 .. Len(tessdb_rows) |->
                             zptess_tessdb_remap_info(tessdb_rows[i])])
        zptess_input_list ==
            group_by_mac([i \in 1 .. Len(zptess_rows) |->
                             zptess_remap_info(zptess_rows[i])])
    IN  common_A_B_items(zptess_input_list, tessdb_input_list)

\* zptess.py generate_*: tessdb_input_list after group_by_mac
zptess_tessdb_input_list(tessdb_rows) ==
    group_by_mac([i \in 1 .. Len(tessdb_rows) |->
                     zptess_tessdb_remap_info(tessdb_rows[i])])

\* zptess.py generate_*: zptess_input_list after group_by_mac
zptess_zptess_input_list(zptess_rows) ==
    group_by_mac([i \in 1 .. Len(zptess_rows) |-> zptess_remap_info(zptess_rows[i])])

\* zptess.py generate_tessdb: the MACs found in tessdb only
zptess_only_tessdb_macs(tessdb_rows, zptess_rows) ==
    in_A_not_in_B(zptess_tessdb_input_list(tessdb_rows),
                  zptess_zptess_input_list(zptess_rows))

\* zptess.py generate_zptess: the MACs found in zptess only
zptess_only_zptess_macs(tessdb_rows, zptess_rows) ==
    in_A_not_in_B(zptess_zptess_input_list(zptess_rows),
                  zptess_tessdb_input_list(tessdb_rows))

\* idadb.py read_databases and generate_common: the MACs found in both
idadb_common_macs(tessdb_rows, idadb_rows) ==
    LET tessdb_input_list ==
            group_by_mac([i \in 1 .. Len(tessdb_rows) |->
                             idadb_tessdb_remap_info(tessdb_rows[i])])
        idadb_input_list ==
            group_by_mac([i \in 1 .. Len(idadb_rows) |->
                             ida_remap_info(idadb_rows[i])])
    IN  common_A_B_items(tessdb_input_list, idadb_input_list)

\* adhoc.py fix: the MACs with a wrong ZP that also have a calibration
adhoc_common_mac_keys(tessdb_input_list, zptess_input_list) ==
    LET tessdb_dict == group_by_mac(tessdb_input_list)
        zptess_dict == group_by_mac(zptess_input_list)
    IN  common_A_B_items(tessdb_dict, zptess_dict)

\* crossdb.py same_mac_filter for one name: the name is kept when the
\* first MongoDB row and the first tessdb row carry equal MACs
same_mac_filter(mdb_rows, tdb_rows) == ~(mdb_rows[1].mac # tdb_rows[1].mac)

Tools == {"zptess", "idadb", "adhoc", "crossdb"}

\* whether tool t treats a row spelled a and a row spelled b as one photometer
ToolMatches(t, a, b) ==
    CASE t = "zptess" -> zptess_common_macs(<<PhotRow(a)>>, <<PhotRow(b)>>) # {}
      [] t = "idadb" -> idadb_common_macs(<<PhotRow(a)>>, <<PhotRow(b)>>) # {}
      [] t = "adhoc" -> adhoc_common_mac_keys(<<PhotRow(a)>>, <<PhotRow(b)>>) # {}
      [] t = "crossdb" -> same_mac_filter(<<PhotRow(a)>>, <<PhotRow(b)>>)

-----------------------------------------------------------------------------
(***************************************************************************)
(* tessdb.py: name_to_mac_t and the queries on it.  The table is the       *)
(* sequence of its rows by valid_since, rows of equal valid_since in the   *)
(* order the database returns them, so that WHERE ... ORDER BY valid_since *)
(* is a SelectSeq.                                                         *)
(***************************************************************************)

\* Bound: the number of rows of name_to_mac_t.
MaxRows == 3

\* the photometer names, in ascending order
NameSeq == <<"other1", "stars2">>

Names == Range(NameSeq)

MacAddrs == {"AA", "BB"}

Tstamps == 1 .. 3

None == "None"

ValidStates == {"Current", "Expired"}

\* the far-future valid_until tessdb gives the row that is in force
Forever == CHOOSE t \in Tstamps : \A u \in Tstamps : u <= t

\* the rows tessdb writes: a row is Expired once its valid_until is set
Rows ==
    {r \in [name : Names, mac : MacAddrs, valid_since : Tstamps, valid_until : Tstamps,
            valid_state : ValidStates] :
        /\ r.valid_since <= r.valid_until
        /\ r.valid_state = "Current" <=> r.valid_until = Forever}

RECURSIVE TablesUpTo(_)
TablesUpTo(n) ==
    IF n = 0 THEN {<<>>}
    ELSE LET shorter == TablesUpTo(n - 1)
             longest == {t \in shorter : Len(t) = n - 1}
         IN  shorter \cup
             {Append(p[1], p[2]) :
                 p \in {q \in longest \X Rows :
                          /\ q[2] \notin Range(q[1])
                          /\ q[1] # <<>> => Last(q[1]).valid_since <= q[2].valid_since}}

Reverse(s) == [i \in 1 .. Len(s) |-> s[Len(s) + 1 - i]]

RECURSIVE Perms(_)
\* the orders a list made from the set S can have
Perms(S) ==
    IF S = {} THEN {<<>>}
    ELSE UNION {{<<x>> \o p : p \in Perms(S \ {x})} : x \in S}

\* tessdb.py name_mac_current_history_sql: the rows of the name, or of the
\* MAC when name is None, ORDER BY valid_since
name_mac_current_history_sql(connection, name, mac) ==
    IF name # None THEN SelectSeq(connection, LAMBDA r : r.name = name)
    ELSE SelectSeq(connection, LAMBDA r : r.mac = mac)

\* tessdb.py name_mac_previous_related_history_sql: WHERE valid_until = :tstamp
name_mac_previous_related_history_sql(connection, tstamp) ==
    SelectSeq(connection, LAMBDA r : r.valid_until = tstamp)

\* tessdb.py name_mac_next_related_history_sql: WHERE valid_since = :tstamp
name_mac_next_related_history_sql(connection, tstamp) ==
    SelectSeq(connection, LAMBDA r : r.valid_since = tstamp)

\* tessdb.py name_mac_current_history with history[i + 1][4] = "-" in place
\* of history[i][4] = "-"
name_mac_current_history_marking_next(connection, name, mac) ==
    LET rows == name_mac_current_history_sql(connection, name, mac)
        broken(i) == rows[i].valid_until # rows[i + 1].valid_since
        breaks == SelectSeq([i \in 1 .. Len(rows) - 1 |-> i], broken)
    IN  [err |-> IF rows = <<>> THEN "IndexError" ELSE "none",
         history |-> [i \in 1 .. Len(rows) |->
                        [row |-> rows[i],
                         contiguous_flag |->
                            IF i > 1 /\ broken(i - 1) THEN "-" ELSE "+"]],
         break_end_tstamps |-> [k \in 1 .. Len(breaks) |-> rows[breaks[k]].valid_until],
         break_start_tstamps |->
            [k \in 1 .. Len(breaks) |-> rows[breaks[k] + 1].valid_since],
         truncated |-> rows # <<>> /\ Last(rows).valid_state = "Expired"]

\* tessdb.py name_mac_current_history.  history[-1] raises IndexError when
\* the name (or MAC) has no row.
name_mac_current_history(connection, name, mac) ==
    LET rows == name_mac_current_history_sql(connection, name, mac)
        broken(i) == rows[i].valid_until # rows[i + 1].valid_since
        breaks == SelectSeq([i \in 1 .. Len(rows) - 1 |-> i], broken)
    IN  [err |-> IF rows = <<>> THEN "IndexError" ELSE "none",
         history |-> [i \in 1 .. Len(rows) |->
                        [row |-> rows[i],
                         contiguous_flag |->
                            IF i < Len(rows) /\ broken(i) THEN "-" ELSE "+"]],
         break_end_tstamps |-> [k \in 1 .. Len(breaks) |-> rows[breaks[k]].valid_until],
         break_start_tstamps |->
            [k \in 1 .. Len(breaks) |-> rows[breaks[k] + 1].valid_since],
         truncated |-> rows # <<>> /\ Last(rows).valid_state = "Expired"]

\* One pass of the while loop of name_mac_previous_related_history
\* (dir = "prev") or name_mac_next_related_history (dir = "next"): the
\* query, and what the loop does with its result.
related_history_pass(connection, dir, tstamp) ==
    LET fragment == IF dir = "prev"
                    THEN name_mac_previous_related_history_sql(connection, tstamp)
                    ELSE name_mac_next_related_history_sql(connection, tstamp)
        L == Len(fragment)
    IN  IF L = 0 THEN [break |-> TRUE, extend |-> <<>>, complicated |-> FALSE, tstamp |-> tstamp]
        ELSE IF L > 1
        THEN [break |-> TRUE, extend |-> fragment, complicated |-> TRUE, tstamp |-> tstamp]
        ELSE [break |-> FALSE, extend |-> fragment, complicated |-> FALSE,
              tstamp |-> IF dir = "prev" THEN fragment[1].valid_since
                         ELSE fragment[1].valid_until]

RECURSIVE related_history_loop(_, _, _, _, _)
\* The while loop run to its end.  The loop's only state is the timestamp
\* it queries with, so it never ends once it queries with a timestamp it
\* has queried with before: status "hang".
related_history_loop(connection, dir, tstamp, acc, visited) ==
    IF tstamp \in visited THEN [status |-> "hang", history |-> acc, complicated |-> FALSE]
    ELSE LET pass == related_history_pass(connection, dir, tstamp)
         IN  IF pass.break
             THEN [status |-> "done", history |-> acc \o pass.extend,
                   complicated |-> pass.complicated]
             ELSE related_history_loop(connection, dir, pass.tstamp, acc \o pass.extend,
                                       visited \cup {tstamp})

\* tessdb.py name_mac_previous_related_history
name_mac_previous_related_history(connection, start_tstamp, name, mac) ==
    LET r == related_history_loop(connection, "prev", start_tstamp, <<>>, {})
    IN  [r EXCEPT !.history = Reverse(@)]

\* tessdb.py name_mac_next_related_history
name_mac_next_related_history(connection, end_tstamp, name, mac) ==
    related_history_loop(connection, "next", end_tstamp, <<>>, {})

-----------------------------------------------------------------------------
(***************************************************************************)
(* tessdb.py: the photometer classification.                               *)
(***************************************************************************)
PHOTOMETER_TYPE == {"easy", "repaired", "renamed", "complicated"}

\* name LIKE 'stars%'
LikeStars(name) == name = "stars2"

\* SELECT name ... GROUP BY name HAVING COUNT(name) > 1
NamesWithManyRows(connection) ==
    {n \in Names : Len(SelectSeq(connection, LAMBDA r : r.name = n)) > 1}

\* SELECT mac_address ... GROUP BY mac_address HAVING COUNT(mac_address) > 1
MacsWithManyRows(connection) ==
    {m \in MacAddrs : Len(SelectSeq(connection, LAMBDA r : r.mac = m)) > 1}

RECURSIVE OrderByName(_, _, _)
\* the rows whose MAC is in macs, ORDER BY name, valid_since
OrderByName(connection, macs, sorted) ==
    IF sorted = <<>> THEN <<>>
    ELSE SelectSeq(connection, LAMBDA r : r.name = Head(sorted) /\ r.mac \in macs)
         \o OrderByName(connection, macs, Tail(sorted))

\* tessdb.py photometers_easy with the second EXCEPT, the renamings part,
\* left out
photometers_easy_keeping_renamed(connection) ==
    LET rows == Range(connection)
        many_names == NamesWithManyRows(connection)
        stars == {r.mac : r \in {x \in rows : LikeStars(x.name)}}
        substituted == {r.mac : r \in {x \in rows : x.name \in many_names}}
    IN  OrderByName(connection, stars \ substituted, NameSeq)

\* tessdb.py photometers_easy
photometers_easy(connection) ==
    LET rows == Range(connection)
        many_names == NamesWithManyRows(connection)
        many_macs == MacsWithManyRows(connection)
        stars == {r.mac : r \in {x \in rows : LikeStars(x.name)}}
        substituted == {r.mac : r \in {x \in rows : x.name \in many_names}}
        renamed == {r.mac : r \in {x \in rows : x.mac \in many_macs}}
    IN  OrderByName(connection, (stars \ substituted) \ renamed, NameSeq)

\* tessdb.py photometers_not_easy
photometers_not_easy(connection) ==
    LET rows == Range(connection)
        many_names == NamesWithManyRows(connection)
        many_macs == MacsWithManyRows(connection)
        substituted == {r.mac : r \in {x \in rows : x.name \in many_names}}
        renamed == {r.mac : r \in {x \in rows : x.mac \in many_macs}}
    IN  OrderByName(connection, substituted \cup renamed, NameSeq)

\* The body of the for loop of photometers_repaired (name given) and of
\* photometers_renamed (mac given) for one row: whether the row is appended
\* to the output, or the loop hangs in a related-history call.
pure_history(connection, name, mac) ==
    LET cur == name_mac_current_history(connection, name, mac)
        start_tstamp == cur.history[1].row.valid_since
        end_tstamp == cur.history[Len(cur.history)].row.valid_until
        prev == name_mac_previous_related_history(connection, start_tstamp, name, mac)
        next == name_mac_next_related_history(connection, end_tstamp, name, mac)
    IN  [status |-> IF prev.status = "hang" \/ next.status = "hang" THEN "hang" ELSE "done",
         pure |-> /\ Len(cur.history) > 1
                  /\ Len(cur.break_end_tstamps) = 0
                  /\ Len(prev.history) = 0
                  /\ Len(next.history) = 0]

\* tessdb.py photometers_repaired
photometers_repaired(connection) ==
    LET rows == photometers_not_easy(connection)
        pure_repair == [i \in 1 .. Len(rows) |-> pure_history(connection, rows[i].name, None)]
        appended == SelectSeq([i \in 1 .. Len(rows) |-> i], LAMBDA i : pure_repair[i].pure)
    IN  [status |-> IF \E i \in 1 .. Len(rows) : pure_repair[i].status = "hang"
                    THEN "hang" ELSE "done",
         output |-> [k \in 1 .. Len(appended) |-> rows[appended[k]]]]

\* tessdb.py photometers_renamed
photometers_renamed(connection) ==
    LET rows == photometers_not_easy(connection)
        pure_renaming == [i \in 1 .. Len(rows) |-> pure_history(connection, None, rows[i].mac)]
        appended == SelectSeq([i \in 1 .. Len(rows) |-> i], LAMBDA i : pure_renaming[i].pure)
    IN  [status |-> IF \E i \in 1 .. Len(rows) : pure_renaming[i].status = "hang"
                    THEN "hang" ELSE "done",
         output |-> [k \in 1 .. Len(appended) |-> rows[appended[k]]]]

\* tessdb.py photometers_complicated: its three locals as sets and its
\* output set (the code lists it in the iteration order of a Python set).
\* total[0] raises IndexError when no photometer is not-easy.
photometers_complicated(connection) ==
    LET all == photometers_not_easy(connection)
        repaired == photometers_repaired(connection)
        renamed == photometers_renamed(connection)
    IN  [status |-> IF repaired.status = "hang" \/ renamed.status = "hang" THEN "hang"
                    ELSE IF all = <<>> THEN "IndexError" ELSE "done",
         total |-> Range(all),
         only_repaired |-> Range(repaired.output),
         only_renamed |-> Range(renamed.output),
         output |-> (Range(all) \ Range(repaired.output)) \ Range(renamed.output)]

-----------------------------------------------------------------------------
(***************************************************************************)
(* mongodb.py: the REST helpers and the update/create loops.  A MongoDB    *)
(* document and a CSV row are [name, mac] records: the other columns are   *)
(* copied into the request body and decide nothing here.  url stands for   *)
(* the remote API behind it: what it answers to the two list requests      *)
(* (photometers_list, photometers) and to a create/update POST (post).     *)
(***************************************************************************)

\* Bound: the number of photometers the remote API lists.
MaxRemote == 2

\* Bound: the number of rows of the CSV file.
MaxCsv == 2

PhotNames == {"stars1", "stars2"}

\* no "mac" in the document (None), or an empty one: `not mac` holds of both
NoMac == <<>>

MongoMacs == {NoMac, <<"0", "A">>}

\* the mac column of a CSV file: a string formatted_mac accepts and one it
\* rejects
CsvMacs == {<<"0", "a">>, <<"g">>}

\* how the API answers a POST: raise_for_status passes or raises HTTPError
Responses == {"ok", "HTTPError"}

UpdateCmds ==
    {"do_update_location", "do_update_photometer", "do_update_organization",
     "do_update_contact", "do_update_all"}

CreateCmds == {"do_create_photometer", "do_create_all"}

\* the functions that pass the CSV rows through remap_mac
RemapCmds == {"do_update_photometer", "do_create_photometer", "do_update_all", "do_create_all"}

\* mongodb.py mongo_get_all with zip left to cut the longer list
mongo_get_all_zipping(url) ==
    LET n == IF Len(url.photometers_list) < Len(url.photometers)
             THEN Len(url.photometers_list) ELSE Len(url.photometers)
        mismatch == {i \in 1 .. n : url.photometers_list[i].name # url.photometers[i].name}
        first == CHOOSE i \in mismatch : \A j \in mismatch : i <= j
    IN  IF mismatch # {}
        THEN [err |-> "NamesMismatchError", val |-> <<>>, correlated |-> first - 1]
        ELSE [err |-> "none",
              val |-> [i \in 1 .. Len(url.photometers) |->
                          [name |-> url.photometers[i].name,
                           mac |-> IF i <= n THEN url.photometers_list[i].mac ELSE NoMac]],
              correlated |-> n]

\* mongodb.py mongo_get_all: the details, each given the mac of the entry
\* of names_list at the same position.  correlated counts the entries
\* given a mac before the function returned or raised.
mongo_get_all(url) ==
    LET n == Len(url.photometers_list)
        mismatch == {i \in 1 .. n : url.photometers_list[i].name # url.photometers[i].name}
        first == CHOOSE i \in mismatch : \A j \in mismatch : i <= j
    IN  IF n # Len(url.photometers)
        THEN [err |-> "ListLengthMismatchError", val |-> <<>>, correlated |-> 0]
        ELSE IF mismatch # {}
        THEN [err |-> "NamesMismatchError", val |-> <<>>, correlated |-> first - 1]
        ELSE [err |-> "none",
              val |-> [i \in 1 .. n |->
                          [f \in DOMAIN url.photometers[i] \cup {"mac"} |->
                              IF f = "mac" THEN url.photometers_list[i].mac
                              ELSE url.photometers[i][f]]],
              correlated |-> n]

\* row.get("info_tess") of a photometer without that section
NoInfo == [absent |-> TRUE]

\* mongodb.py mongo_flatten_location, for a photometer with an
\* info_location section: its columns, and the local_timezone of info_tess
\* as timezone, "Etc/UTC" when there is none
mongo_flatten_location(row) ==
    [name |-> row.name,
     longitude |-> row.info_location.longitude,
     latitude |-> row.info_location.latitude,
     place |-> row.info_location.place,
     timezone |-> IF row.info_tess = NoInfo THEN "Etc/UTC"
                  ELSE row.info_tess.local_timezone]

\* mongodb.py mongo_get_location_info
mongo_get_location_info(url) ==
    LET got == mongo_get_all(url)
    IN  [got EXCEPT !.val = [i \in 1 .. Len(got.val) |-> mongo_flatten_location(got.val[i])]]

\* TimezoneFinder.timezone_at(lng, lat), for the places of the model
timezone_at(lng, lat) == IF lng < 5 THEN "Europe/Madrid" ELSE "Europe/Berlin"

\* dbutils.py remap_timezone
remap_timezone(row) ==
    [row EXCEPT !.timezone = timezone_at(row.longitude, row.latitude)]

\* dbutils.py timezone
timezone(iterable) == [i \in 1 .. Len(iterable) |-> remap_timezone(iterable[i])]

\* mongodb.py remap_tzfinder: timezone becomes tzfinder_timezone, the other
\* keys are copied
remap_tzfinder(row) ==
    [f \in (DOMAIN row \ {"timezone"}) \cup {"tzfinder_timezone"} |->
        IF f = "tzfinder_timezone" THEN row.timezone ELSE row[f]]

\* mongodb.py merge_info: {**input_iterable[i], **nominatim_iterable[i]}
merge_info(input_iterable, nominatim_iterable) ==
    [i \in 1 .. Len(input_iterable) |->
        [f \in DOMAIN input_iterable[i] \cup DOMAIN nominatim_iterable[i] |->
            IF f \in DOMAIN nominatim_iterable[i] THEN nominatim_iterable[i][f]
            ELSE input_iterable[i][f]]]

\* mongodb.py TZFINDER_HEADER, the columns this model carries
TZFINDER_HEADER ==
    <<"name", "longitude", "latitude", "place", "timezone", "tzfinder_timezone">>

\* the first of the keys in types that metadata has, None when it has none
FirstKey(metadata, types) ==
    LET present == SelectSeq(types, LAMBDA t : t \in DOMAIN metadata)
    IN  IF present = <<>> THEN None ELSE present[1]

\* dbutils.py remap_location, given what geolocator.reverse returned:
\* None for no result, else the address of location.raw
remap_location(location, row) ==
    IF location = NoneRow THEN NoneRow
    ELSE LET metadata == location
             place_type == FirstKey(metadata, <<"leisure", "amenity", "tourism", "building",
                                                "road", "hamlet">>)
             town_type == FirstKey(metadata, <<"village", "town", "city", "municipality">>)
             province_type == FirstKey(metadata, <<"state_district", "province">>)
             get(key) == IF key \in DOMAIN metadata THEN metadata[key] ELSE None
             numbered == place_type = "road" /\ "house_number" \in DOMAIN metadata
         IN  [name |-> row.name,
              latitude |-> row.latitude,
              longitude |-> row.longitude,
              place |-> IF place_type = None THEN None
                        ELSE IF numbered
                        THEN metadata[place_type] \o ", " \o metadata["house_number"]
                        ELSE metadata[place_type],
              place_type |-> IF numbered THEN "road + house_number" ELSE place_type,
              town |-> get(town_type),
              town_type |-> town_type,
              sub_region |-> get(province_type),
              sub_region_type |-> province_type,
              region |-> get("state"),
              region_type |-> "state",
              zipcode |-> get("postcode"),
              country |-> get("country"),
              timezone |-> timezone_at(row.longitude, row.latitude)]

\* dbutils.py geolocate: remap_location mapped over the list, the None of
\* a location without result kept in its place
geolocate(answers, iterable) ==
    [i \in 1 .. Len(iterable) |-> remap_location(answers[i], iterable[i])]

NominatimKeys ==
    {"place", "place_type", "town", "town_type", "sub_region", "sub_region_type",
     "region", "region_type", "country", "timezone", "zipcode"}

\* mongodb.py remap_nominatim: row[key] raises TypeError when row is None
remap_nominatim(row) ==
    IF row = NoneRow THEN [err |-> "TypeError", val |-> NoneRow]
    ELSE [err |-> "none",
          val |-> [f \in {"nominatim_" \o k : k \in NominatimKeys}
                           \cup (DOMAIN row \ NominatimKeys) |->
                      IF f \in DOMAIN row \ NominatimKeys THEN row[f]
                      ELSE row[CHOOSE k \in NominatimKeys : "nominatim_" \o k = f]]]

\* mongodb.py NOMINATIM_HEADER
NOMINATIM_HEADER ==
    <<"name", "longitude", "latitude", "place", "nominatim_place", "nominatim_place_type",
      "town", "nominatim_town", "nominatim_town_type", "sub_region", "nominatim_sub_region",
      "nominatim_sub_region_type", "region", "nominatim_region", "nominatim_region_type",
      "country", "nominatim_country", "timezone", "nominatim_timezone",
      "nominatim_zipcode">>

\* mongodb.py mongo_flatten_photometer: name and row.get("mac", None)
mongo_flatten_photometer(row) == [name |-> row.name, mac |-> row.mac]

\* mongodb.py mongo_flatten_all: the photometer columns and the others
mongo_flatten_all(row) == mongo_flatten_photometer(row)

\* mongodb.py add_old_columns: old_mac, old_zero_point, old_filters, comment
add_old_columns(row) == row

mongo_get_photometer_info(url) ==
    LET all == mongo_get_all(url)
    IN  [all EXCEPT !.val = [i \in 1 .. Len(all.val) |->
                                add_old_columns(mongo_flatten_photometer(all.val[i]))]]

mongo_get_all_info(url) ==
    LET all == mongo_get_all(url)
    IN  [all EXCEPT !.val = [i \in 1 .. Len(all.val) |-> mongo_flatten_all(all.val[i])]]

\* str.upper on the characters of a formatted MAC
upper(s) ==
    [i \in 1 .. Len(s) |->
        IF \E k \in 1 .. 16 : LowerDigits[k] = s[i]
        THEN UpperDigits[CHOOSE k \in 1 .. 16 : LowerDigits[k] = s[i]]
        ELSE s[i]]

RECURSIVE remap_mac(_)
\* mongodb.py remap_mac: list(map(_map_mac, input_iterable)).  When
\* formatted_mac raises, _map_mac logs the error and goes on to read its
\* local new_mac, which was never bound: UnboundLocalError leaves map, and
\* no list is returned.
remap_mac(input_iterable) ==
    IF input_iterable = <<>> THEN [err |-> "none", val |-> <<>>, log |-> <<>>]
    ELSE LET item == Head(input_iterable)
             new_mac == formatted_mac(item.mac)
             rest == remap_mac(Tail(input_iterable))
         IN  IF new_mac.err # "none"
             THEN [err |-> "UnboundLocalError", val |-> <<>>,
                   log |-> <<[level |-> "error", name |-> item.name]>>]
             ELSE IF rest.err # "none" THEN rest
             ELSE [err |-> "none", val |-> <<[item EXCEPT !.mac = new_mac.val]>> \o rest.val,
                   log |-> <<>>]

filter_by_names(iterable, name_set) == SelectSeq(iterable, LAMBDA row : row.name \in name_set)

filter_by_name(iterable, name) == filter_by_names(iterable, {name})

\* mongodb.py get_item without the check for duplicates
get_item_first(iterable, key, item) ==
    LET result == filter_by_name(iterable, key)
    IN  IF Len(result) = 0 THEN [err |-> "AssertionError", val |-> NoMac]
        ELSE [err |-> "none", val |-> result[1][item]]

\* mongodb.py get_item
get_item(iterable, key, item) ==
    LET result == filter_by_name(iterable, key)
    IN  IF Len(result) = 0 THEN [err |-> "AssertionError", val |-> NoMac]
        ELSE IF Len(result) > 1 THEN [err |-> "DuplicatesError", val |-> NoMac]
        ELSE [err |-> "none", val |-> result[1][item]]

get_mac(iterable, name) == get_item(iterable, name, "mac")

\* The request bodies: body["tess"]["name"] and, where the function sets
\* it, body["tess"]["mac"].  The lookups mongo_api_body_location and
\* mongo_api_body_photometer make in aux_iterable are lookups of the name
\* get_mac has already found once.
mongo_api_body_location(row, aux_iterable) == [name |-> row.name]

mongo_api_body_photometer(row, aux_iterable, create) ==
    [name |-> row.name, mac |-> upper(row.mac)]

mongo_api_body_organization(row) == [name |-> row.name]

mongo_api_body_contact(row) == [name |-> row.name]

mongo_api_body_all(row) == [name |-> row.name, mac |-> upper(row.mac)]

\* mongodb.py mongo_api_update sending whatever the simulated flag says
mongo_api_update_sending(url, body, mac, sim) ==
    IF mac = NoMac THEN [err |-> "ValueError", sent |-> <<>>, printed |-> <<>>]
    ELSE [err |-> IF url.post = "ok" THEN "none" ELSE "HTTPError",
          sent |-> <<[method |-> "POST", name |-> body.name, mac |-> mac,
                      response |-> url.post]>>,
          printed |-> <<>>]

\* mongodb.py mongo_api_update: ValueError without a mac; otherwise the
\* POST to /photometers/name/mac and raise_for_status, or, simulated, the
\* prepared request printed
mongo_api_update(url, body, mac, sim) ==
    IF mac = NoMac THEN [err |-> "ValueError", sent |-> <<>>, printed |-> <<>>]
    ELSE IF ~sim
    THEN [err |-> IF url.post = "ok" THEN "none" ELSE "HTTPError",
          sent |-> <<[method |-> "POST", name |-> body.name, mac |-> mac,
                      response |-> url.post]>>,
          printed |-> <<>>]
    ELSE [err |-> "none", sent |-> <<>>,
          printed |-> <<[method |-> "POST", name |-> body.name, mac |-> mac]>>]

\* mongodb.py mongo_api_create: the mac is the one of the body
mongo_api_create(url, body, sim) ==
    IF ~sim
    THEN [err |-> IF url.post = "ok" THEN "none" ELSE "HTTPError",
          sent |-> <<[method |-> "POST", name |-> body.name, mac |-> body.mac,
                      response |-> url.post]>>,
          printed |-> <<>>]
    ELSE [err |-> "none", sent |-> <<>>,
          printed |-> <<[method |-> "POST", name |-> body.name, mac |-> body.mac]>>]

\* the except clauses of the loops with HTTPError left uncaught
caught_without_http(function) ==
    IF function = "do_create_photometer" THEN {} ELSE {"ValueError"}

\* the exceptions the try of each loop catches
caught(function) ==
    IF function = "do_create_photometer" THEN {"HTTPError"}
    ELSE {"ValueError", "HTTPError"}

\* what the except clause that catches err logs for the row of this name
handler_log(function, err, name) ==
    IF err = "HTTPError" THEN <<[level |-> "error", name |-> name]>>
    ELSE IF function = "do_update_location"
    THEN <<[level |-> "error", name |-> name], [level |-> "warn", name |-> name]>>
    ELSE <<[level |-> "warn", name |-> name]>>

\* dbutils.py filter_and_flatten, keys given
filter_and_flatten(iterable, keys) ==
    LET RECURSIVE flat(_)
        flat(d) == IF d = <<>> THEN <<>>
                   ELSE (IF Head(d).k \in keys THEN Head(d).v ELSE <<>>) \o flat(Tail(d))
    IN  flat(iterable)

\* dbutils.py filter_and_flatten, keys=None
filter_and_flatten_all(iterable) ==
    LET RECURSIVE flat(_)
        flat(d) == IF d = <<>> THEN <<>> ELSE Head(d).v \o flat(Tail(d))
    IN  flat(iterable)

RECURSIVE do_check_mac_format(_)
\* mongodb.py do_check_mac_format: what it logs for the list, item by item,
\* and the closing message when nothing was wrong
do_check_mac_format(input_list) ==
    IF input_list = <<>> THEN <<>>
    ELSE LET item == Last(input_list)
             lower == \E i \in 1 .. Len(SplitMac(item.mac)) : islower(SplitMac(item.mac)[i])
             entry(level, text, formatted) ==
                 [level |-> level, name |-> item.name, text |-> text, mac |-> item.mac,
                  formatted |-> formatted]
             lower_warning == IF lower THEN <<entry("warn", "lower case", <<>>)>> ELSE <<>>
         IN  do_check_mac_format(Front(input_list))
                \o (IF is_mac(item.mac) THEN lower_warning
                    ELSE IF is_tess_mac(item.mac)
                    THEN <<entry("warn", "not properly formatted",
                                 formatted_mac(item.mac).val)>> \o lower_warning
                    ELSE <<entry("error", "not a proper MAC", <<>>)>>)

-----------------------------------------------------------------------------
(***************************************************************************)
(* The MAC strings the stores hold.                                        *)
(***************************************************************************)
Groups ==
    LET longest == CHOOSE n \in GroupLens : \A m \in GroupLens : m <= n
    IN  {g \in SeqsUpTo(Chars, longest) : Len(g) \in GroupLens}

MacStrings ==
    {JoinMac(gs) : gs \in {s \in SeqsUpTo(Groups, MaxGroups) : Len(s) >= 1}}

\* the groups that denote the same number as an accepted group g
GroupSpellings(g) ==
    {h \in Groups : IsHexGroup(h) /\ ParseGroup(h) = ParseGroup(g)}

RECURSIVE GroupsSpellings(_)
GroupsSpellings(gs) ==
    IF gs = <<>> THEN {<<>>}
    ELSE {Append(p, h) : p \in GroupsSpellings(Front(gs)), h \in GroupSpellings(Last(gs))}

\* the other spellings of the device address mac: the same numbers, group
\* by group.  A string formatted_mac rejects has no other spelling.
Spellings(mac) ==
    IF Accepted(mac) THEN {JoinMac(gs) : gs \in GroupsSpellings(SplitMac(mac))}
    ELSE {mac}

NoResult == [err |-> "unset", val |-> <<>>]

NoArgs == [name |-> None, mac |-> None]

SelIdle ==
    /\ classification = "none"
    /\ selStatus = "none"
    /\ selected = <<>>
    /\ total = {}
    /\ only_repaired = {}
    /\ only_renamed = {}

CmdIdle ==
    /\ hArgs = NoArgs
    /\ history = <<>>
    /\ truncated = FALSE
    /\ break_end_tstamps = <<>>
    /\ break_start_tstamps = <<>>
    /\ todo = <<>>
    /\ hTstamp = 0
    /\ hAcc = <<>>
    /\ hQueries = 0
    /\ sections = <<>>
    /\ global_history = <<>>
    /\ console = <<>>

\* mongodb.py: nothing fetched, sent, logged or written yet
RunIdle ==
    /\ mongo_input_list = <<>>
    /\ correlated = 0
    /\ mongo_output_list = <<>>
    /\ idx = 0
    /\ error = "none"
    /\ attempts = <<>>
    /\ requests = <<>>
    /\ printed = <<>>
    /\ log = <<>>
    /\ files = <<>>

HistIdle ==
    /\ table = <<>>
    /\ histPc = "idle"
    /\ SelIdle
    /\ CmdIdle

MongoIdle ==
    /\ updPc = "idle"
    /\ cmd = "none"
    /\ simulated = FALSE
    /\ names = {}
    /\ names_list = <<>>
    /\ details_list = <<>>
    /\ csv = <<>>
    /\ RunIdle

DbIdle ==
    /\ dbPc = "idle"
    /\ tessdb_db = <<>>
    /\ zptess_db = <<>>
    /\ idadb_db = <<>>
    /\ ran = {}
    /\ common_macs = {}
    /\ only_tessdb_macs = {}
    /\ only_zptess_macs = {}
    /\ fix_items = <<>>
    /\ ida_output = <<>>
    /\ group_input = <<>>
    /\ grouped = <<>>
    /\ flattened = <<>>

MacIdle ==
    /\ macPc = "idle"
    /\ mac1 = <<>>
    /\ mac2 = <<>>
    /\ fmt1 = NoResult
    /\ fmt2 = NoResult
    /\ refmt = NoResult
    /\ tool = "none"
    /\ matched = FALSE

\* Two stores hold the address of one device, each in its own spelling.
InitMac ==
    /\ macPc = "input"
    /\ mac1 \in MacStrings
    /\ mac2 \in Spellings(mac1)
    /\ fmt1 = NoResult
    /\ fmt2 = NoResult
    /\ refmt = NoResult
    /\ tool = "none"
    /\ matched = FALSE
    /\ HistIdle
    /\ MongoIdle
    /\ DbIdle

\* formatted_mac is applied to both spellings, and once more to its own
\* result.
FormatMacs ==
    /\ macPc = "input"
    /\ fmt1' = formatted_mac(mac1)
    /\ fmt2' = formatted_mac(mac2)
    /\ refmt' = IF formatted_mac(mac1).err = "none"
                THEN formatted_mac(formatted_mac(mac1).val)
                ELSE NoResult
    /\ macPc' = "formatted"
    /\ UNCHANGED <<mac1, mac2, tool, matched, histVars, mongoVars, dbVars>>

\* One of the tools reads the device from its two stores and matches the
\* rows by MAC.
MatchMacs ==
    /\ macPc = "input"
    /\ \E t \in Tools :
          /\ tool' = t
          /\ matched' = ToolMatches(t, mac1, mac2)
    /\ macPc' = "matched"
    /\ UNCHANGED <<mac1, mac2, fmt1, fmt2, refmt, histVars, mongoVars, dbVars>>

NextMac == FormatMacs \/ MatchMacs

SpecMac == InitMac /\ [][NextMac]_vars

-----------------------------------------------------------------------------
(***************************************************************************)
(* The tessdb commands over one content of name_to_mac_t.                  *)
(***************************************************************************)

\* The cap on the queries of one related-history call that the model
\* follows: a call that hangs is followed for one query past the number
\* any call that ends can make.
MaxQueries == MaxRows + 2

InitHist ==
    /\ MacIdle
    /\ DbIdle
    /\ MongoIdle
    /\ table \in TablesUpTo(MaxRows)
    /\ histPc = "idle"
    /\ SelIdle
    /\ CmdIdle

\* tessdb.py selected_name_mac_list, for the classification asked for on
\* the command line (photometer_classification)
SelectedNameMacList ==
    /\ histPc = "idle"
    /\ \E c \in PHOTOMETER_TYPE :
          /\ classification' = c
          /\ CASE c = "easy" ->
                    /\ selStatus' = "done"
                    /\ selected' = photometers_easy(table)
                    /\ UNCHANGED <<total, only_repaired, only_renamed>>
               [] c = "renamed" ->
                    LET r == photometers_renamed(table)
                    IN  /\ selStatus' = r.status
                        /\ selected' = IF r.status = "done" THEN r.output ELSE <<>>
                        /\ UNCHANGED <<total, only_repaired, only_renamed>>
               [] c = "repaired" ->
                    LET r == photometers_repaired(table)
                    IN  /\ selStatus' = r.status
                        /\ selected' = IF r.status = "done" THEN r.output ELSE <<>>
                        /\ UNCHANGED <<total, only_repaired, only_renamed>>
               [] c = "complicated" ->
                    \E r \in {photometers_complicated(table)} :
                        /\ selStatus' = r.status
                        /\ IF r.status = "done"
                           THEN /\ selected' \in Perms(r.output)
                                /\ total' = r.total
                                /\ only_repaired' = r.only_repaired
                                /\ only_renamed' = r.only_renamed
                           ELSE /\ selected' = <<>>
                                /\ UNCHANGED <<total, only_repaired, only_renamed>>
    /\ histPc' = "classified"
    /\ UNCHANGED <<dbVars, macVars, mongoVars, table, cmdVars>>

\* tessdb.py history, up to its first related-history call: the current
\* history of args.name or args.mac, and the calls it goes on to make
\* (previous, next, then one per break end and one per break start).
HistoryStart ==
    /\ histPc = "idle"
    /\ \E args \in {[name |-> n, mac |-> None] : n \in Names}
                   \cup {[name |-> None, mac |-> m] : m \in MacAddrs} :
          LET cur == name_mac_current_history(table, args.name, args.mac)
              start_tstamp == cur.history[1].row.valid_since
              end_tstamp == cur.history[Len(cur.history)].row.valid_until
          IN  /\ hArgs' = args
              /\ IF cur.err = "IndexError"
                 THEN /\ histPc' = "crashed"
                      /\ UNCHANGED <<history, truncated, break_end_tstamps, break_start_tstamps,
                                     todo, hTstamp>>
                 ELSE /\ histPc' = "walking"
                      /\ history' = cur.history
                      /\ truncated' = cur.truncated
                      /\ break_end_tstamps' = cur.break_end_tstamps
                      /\ break_start_tstamps' = cur.break_start_tstamps
                      /\ todo' = <<[tag |-> "prev_related", tstamp |-> start_tstamp],
                                   [tag |-> "next_related", tstamp |-> end_tstamp]>>
                                 \o [i \in 1 .. Len(cur.break_end_tstamps) |->
                                        [tag |-> "broken_end",
                                         tstamp |-> cur.break_end_tstamps[i]]]
                                 \o [i \in 1 .. Len(cur.break_start_tstamps) |->
                                        [tag |-> "broken_start",
                                         tstamp |-> cur.break_start_tstamps[i]]]
                      /\ hTstamp' = start_tstamp
    /\ UNCHANGED <<dbVars, macVars, mongoVars, table, selVars, hAcc, hQueries, sections, global_history,
                   console>>

\* One pass of the while loop of the running related-history call: one
\* query.  When the loop breaks the call returns and the next call starts.
\* Only the first call is a name_mac_previous_related_history call; the
\* calls made for the break ends and for the break starts are both
\* name_mac_next_related_history calls.
RelatedHistoryPass ==
    /\ histPc = "walking"
    /\ hQueries < MaxQueries
    /\ LET call == Head(todo)
           dir == IF call.tag = "prev_related" THEN "prev" ELSE "next"
           pass == related_history_pass(table, dir, hTstamp)
           acc == hAcc \o pass.extend
       IN  IF pass.break
           THEN /\ sections' = Append(sections,
                                      [tag |-> call.tag, tstamp |-> call.tstamp,
                                       rows |-> IF dir = "prev" THEN Reverse(acc) ELSE acc,
                                       complicated |-> pass.complicated,
                                       queries |-> hQueries + 1])
                /\ todo' = Tail(todo)
                /\ hAcc' = <<>>
                /\ hQueries' = 0
                /\ hTstamp' = IF Tail(todo) = <<>> THEN 0 ELSE Tail(todo)[1].tstamp
                /\ histPc' = IF Tail(todo) = <<>> THEN "walked" ELSE "walking"
           ELSE /\ hAcc' = acc
                /\ hQueries' = hQueries + 1
                /\ hTstamp' = pass.tstamp
                /\ UNCHANGED <<sections, todo, histPc>>
    /\ UNCHANGED <<dbVars, macVars, mongoVars, table, selVars, hArgs, history, truncated, break_end_tstamps,
                   break_start_tstamps, global_history, console>>

SectionsTagged(tag) == SelectSeq(sections, LAMBDA x : x.tag = tag)

\* tessdb.py history, after its related-history calls: global_history as
\* accumulated for the CSV file, and, without --output-file, the rows
\* logged.  The two console loops over the break timestamps log the
\* variables broken_end_history and broken_start_history, which hold the
\* result of the last call the accumulation loops made.
HistoryReport ==
    /\ histPc = "walked"
    /\ \E output_file \in BOOLEAN :
          LET prev_history == SectionsTagged("prev_related")[1].rows
              next_history == SectionsTagged("next_related")[1].rows
              ends == SectionsTagged("broken_end")
              starts == SectionsTagged("broken_start")
              broken_end_history == ends[Len(ends)].rows
              broken_start_history == starts[Len(starts)].rows
          IN  /\ global_history' =
                    <<[tag |-> "prev_related", rows |-> prev_history],
                      [tag |-> "current", rows |-> [i \in 1 .. Len(history) |-> history[i].row]],
                      [tag |-> "next_related", rows |-> next_history]>>
                    \o [i \in 1 .. Len(ends) |-> [tag |-> "broken_end", rows |-> ends[i].rows]]
                    \o [i \in 1 .. Len(starts) |->
                           [tag |-> "broken_start", rows |-> starts[i].rows]]
              /\ console' =
                    IF output_file THEN <<>>
                    ELSE <<[banner |-> "PREVIOUS RELATED HISTORY", tstamp |-> 0,
                            rows |-> prev_history],
                           [banner |-> "HISTORY", tstamp |-> 0,
                            rows |-> [i \in 1 .. Len(history) |-> history[i].row]],
                           [banner |-> "NEXT RELATED HISTORY", tstamp |-> 0,
                            rows |-> next_history]>>
                         \o [i \in 1 .. Len(break_end_tstamps) |->
                                [banner |-> "BROKEN END TIMESTAMP RELATED HISTORY",
                                 tstamp |-> break_end_tstamps[i],
                                 rows |-> broken_end_history]]
                         \o [i \in 1 .. Len(break_start_tstamps) |->
                                [banner |-> "BROKEN START TIMESTAMP RELATED HISTORY",
                                 tstamp |-> break_start_tstamps[i],
                                 rows |-> broken_start_history]]
    /\ histPc' = "reported"
    /\ UNCHANGED <<dbVars, macVars, mongoVars, table, selVars, hArgs, history, truncated, break_end_tstamps,
                   break_start_tstamps, todo, hTstamp, hAcc, hQueries, sections>>

\* The tables whose rows carry any valid_state, whatever their valid_until.
MaxStateRows == 2

\* the rows of table t with the valid_state column set to states
WithStates(t, states) == [i \in 1 .. Len(t) |-> [t[i] EXCEPT !.valid_state = states[i]]]

InitCurrent ==
    /\ MacIdle
    /\ DbIdle
    /\ MongoIdle
    /\ \E t \in TablesUpTo(MaxStateRows) :
          \E states \in [1 .. Len(t) -> ValidStates] : table = WithStates(t, states)
    /\ histPc = "idle"
    /\ SelIdle
    /\ CmdIdle

\* The commands that classify the photometers (readings, fix, photometer).
NextClass == SelectedNameMacList

SpecClass == InitHist /\ [][NextClass]_vars

\* The history command.
NextHist == HistoryStart \/ RelatedHistoryPass \/ HistoryReport

SpecHist == InitHist /\ [][NextHist]_vars

NextCurrent == HistoryStart

SpecCurrent == InitCurrent /\ [][NextCurrent]_vars

-----------------------------------------------------------------------------
-----------------------------------------------------------------------------
(***************************************************************************)
(* mongodb.py: the remote API, and mongo_get_all against any two          *)
(* responses of it.                                                        *)
(***************************************************************************)
NameMacEntries == {[name |-> n, mac |-> m] : n \in PhotNames, m \in MongoMacs}

NameEntries == {[name |-> n] : n \in PhotNames}

\* the API as this run finds it, answering a POST with response
Remote(response) ==
    [photometers_list |-> names_list, photometers |-> details_list, post |-> response]

InitGetAll ==
    /\ MacIdle
    /\ DbIdle
    /\ HistIdle
    /\ updPc = "start"
    /\ cmd = "mongo_get_all"
    /\ simulated = FALSE
    /\ names = {}
    /\ names_list \in SeqsUpTo(NameMacEntries, MaxRemote)
    /\ details_list \in SeqsUpTo(NameEntries, MaxRemote)
    /\ csv = <<>>
    /\ RunIdle

MongoGetAll ==
    /\ updPc = "start"
    /\ cmd = "mongo_get_all"
    /\ LET all == mongo_get_all(Remote("ok"))
       IN  /\ mongo_input_list' = all.val
           /\ correlated' = all.correlated
           /\ error' = all.err
           /\ updPc' = IF all.err = "none" THEN "done" ELSE "aborted"
    /\ UNCHANGED <<dbVars, macVars, histVars, cmd, simulated, names, names_list, details_list, csv,
                   mongo_output_list, idx, attempts, requests, printed, log, files>>

NextGetAll == MongoGetAll

SpecGetAll == InitGetAll /\ [][NextGetAll]_vars

-----------------------------------------------------------------------------
(***************************************************************************)
(* mongodb.py: one run of an update, create or diff command.  The API      *)
(* lists the same photometers in both responses.                           *)
(***************************************************************************)

\* the rows of the CSV file: the files of remap_mac's callers and the
\* backup file of the diff have a mac column
CsvRows(function) ==
    IF function \in RemapCmds \cup {"do_diff_all"}
    THEN {[name |-> n, mac |-> m] : n \in PhotNames, m \in CsvMacs}
    ELSE {[name |-> n, mac |-> NoMac] : n \in PhotNames}

\* args.names: no --names, or one name
NameFilters == {{}, {"stars1"}}

InitMongo ==
    /\ MacIdle
    /\ DbIdle
    /\ HistIdle
    /\ updPc = "start"
    /\ cmd \in UpdateCmds \cup CreateCmds \cup {"do_diff_all"}
    /\ simulated \in (IF cmd = "do_diff_all" THEN {FALSE} ELSE BOOLEAN)
    /\ names \in (IF cmd = "do_diff_all" THEN {{}} ELSE NameFilters)
    /\ names_list \in SeqsUpTo(NameMacEntries, MaxRemote)
    /\ details_list = [i \in 1 .. Len(names_list) |-> [name |-> names_list[i].name]]
    /\ csv \in SeqsUpTo(CsvRows(cmd), MaxCsv)
    /\ RunIdle

\* do_update_* and do_create_*, up to the for loop: the lookup list from
\* MongoDB, read_csv, remap_mac, filter_by_names
DoStart ==
    /\ updPc = "start"
    /\ cmd \in UpdateCmds \cup CreateCmds
    /\ LET got == CASE cmd \in {"do_update_location", "do_update_photometer"} ->
                          mongo_get_all_info(Remote("ok"))
                    [] cmd = "do_create_photometer" ->
                          [err |-> "none", val |-> <<>>, correlated |-> 0]
                    [] OTHER -> mongo_get_photometer_info(Remote("ok"))
           remapped == IF cmd \in RemapCmds THEN remap_mac(csv)
                       ELSE [err |-> "none", val |-> csv, log |-> <<>>]
           filtered == IF names # {} THEN filter_by_names(remapped.val, names)
                       ELSE remapped.val
       IN  /\ correlated' = got.correlated
           /\ IF got.err # "none"
              THEN /\ error' = got.err
                   /\ updPc' = "aborted"
                   /\ UNCHANGED <<mongo_input_list, mongo_output_list, idx, log>>
              ELSE IF remapped.err # "none"
              THEN /\ error' = remapped.err
                   /\ updPc' = "aborted"
                   /\ mongo_input_list' = got.val
                   /\ log' = log \o remapped.log
                   /\ UNCHANGED <<mongo_output_list, idx>>
              ELSE /\ mongo_input_list' = got.val
                   /\ mongo_output_list' = filtered
                   /\ idx' = 1
                   /\ updPc' = IF filtered = <<>> THEN "done" ELSE "loop"
                   /\ UNCHANGED <<error, log>>
    /\ UNCHANGED <<dbVars, macVars, histVars, cmd, simulated, names, names_list, details_list, csv,
                   attempts, requests, printed, files>>

\* One pass of the for loop of a do_update_* function: get_mac and the
\* body outside the try, mongo_api_update inside it.
UpdateRow ==
    /\ updPc = "loop"
    /\ cmd \in UpdateCmds
    /\ LET row == mongo_output_list[idx]
           mac == get_mac(mongo_input_list, row.name)
           body == CASE cmd = "do_update_location" ->
                           mongo_api_body_location(row, mongo_input_list)
                     [] cmd = "do_update_photometer" ->
                           mongo_api_body_photometer(row, mongo_input_list, FALSE)
                     [] cmd = "do_update_organization" -> mongo_api_body_organization(row)
                     [] cmd = "do_update_contact" -> mongo_api_body_contact(row)
                     [] cmd = "do_update_all" -> mongo_api_body_all(row)
       IN  IF mac.err # "none"
           THEN /\ error' = mac.err
                /\ updPc' = "aborted"
                /\ UNCHANGED <<idx, attempts, requests, printed, log>>
           ELSE \E response \in Responses :
                   LET r == mongo_api_update(Remote(response), body, mac.val, simulated)
                   IN  /\ attempts' = Append(attempts, [idx |-> idx, err |-> r.err])
                       /\ requests' = requests \o r.sent
                       /\ printed' = printed \o r.printed
                       /\ IF r.err = "none" \/ r.err \in caught(cmd)
                          THEN /\ log' = IF r.err = "none" THEN log
                                         ELSE log \o handler_log(cmd, r.err, row.name)
                               /\ idx' = idx + 1
                               /\ updPc' = IF idx + 1 > Len(mongo_output_list)
                                           THEN "done" ELSE "loop"
                               /\ UNCHANGED error
                          ELSE /\ error' = r.err
                               /\ updPc' = "aborted"
                               /\ UNCHANGED <<idx, log>>
    /\ UNCHANGED <<dbVars, macVars, histVars, cmd, simulated, names, names_list, details_list, csv,
                   mongo_input_list, correlated, mongo_output_list, files>>

\* One pass of the for loop of do_create_photometer or do_create_all.
CreateRow ==
    /\ updPc = "loop"
    /\ cmd \in CreateCmds
    /\ LET row == mongo_output_list[idx]
           body == IF cmd = "do_create_photometer"
                   THEN mongo_api_body_photometer(row, <<>>, TRUE)
                   ELSE mongo_api_body_all(row)
       IN  \E response \in Responses :
              LET r == mongo_api_create(Remote(response), body, simulated)
              IN  /\ attempts' = Append(attempts, [idx |-> idx, err |-> r.err])
                  /\ requests' = requests \o r.sent
                  /\ printed' = printed \o r.printed
                  /\ IF r.err = "none" \/ r.err \in caught(cmd)
                     THEN /\ log' = IF r.err = "none" THEN log
                                    ELSE log \o handler_log(cmd, r.err, row.name)
                          /\ idx' = idx + 1
                          /\ updPc' = IF idx + 1 > Len(mongo_output_list)
                                      THEN "done" ELSE "loop"
                          /\ UNCHANGED error
                     ELSE /\ error' = r.err
                          /\ updPc' = "aborted"
                          /\ UNCHANGED <<idx, log>>
    /\ UNCHANGED <<dbVars, macVars, histVars, cmd, simulated, names, names_list, details_list, csv,
                   mongo_input_list, correlated, mongo_output_list, files>>

\* mongodb.py do_diff_all: the four write_csv calls, each with the rows it
\* is given
DoDiffAll ==
    /\ updPc = "start"
    /\ cmd = "do_diff_all"
    /\ LET got == mongo_get_all_info(Remote("ok"))
           mongo_iterable == group_by_name(got.val)
           csv_iterable == group_by_name(csv)
           keys_in_csv_file_not_in_mongo == in_A_not_in_B(csv_iterable, mongo_iterable)
           csv_not_in_mongo == filter_and_flatten(csv_iterable, keys_in_csv_file_not_in_mongo)
           keys_in_mongo_not_in_csv_file == in_A_not_in_B(mongo_iterable, csv_iterable)
           mongo_not_in_csv == filter_and_flatten(mongo_iterable, keys_in_mongo_not_in_csv_file)
           in_both_keys == common_A_B_items(mongo_iterable, csv_iterable)
           common_entries_mongo == filter_and_flatten(mongo_iterable, in_both_keys)
           common_entries_file == filter_and_flatten(csv_iterable, in_both_keys)
       IN  /\ correlated' = got.correlated
           /\ IF got.err # "none"
              THEN /\ error' = got.err
                   /\ updPc' = "aborted"
                   /\ UNCHANGED <<mongo_input_list, files>>
              ELSE /\ mongo_input_list' = got.val
                   /\ files' = <<[path |-> "in_file_not_in_mongo", rows |-> csv_not_in_mongo],
                                 [path |-> "in_mongo_not_in_file", rows |-> csv_not_in_mongo],
                                 [path |-> "common_file", rows |-> csv_not_in_mongo],
                                 [path |-> "common_mongo", rows |-> csv_not_in_mongo]>>
                   /\ updPc' = "done"
                   /\ UNCHANGED error
    /\ UNCHANGED <<dbVars, macVars, histVars, cmd, simulated, names, names_list, details_list, csv,
                   mongo_output_list, idx, attempts, requests, printed, log>>

NextMongo == DoStart \/ UpdateRow \/ CreateRow \/ DoDiffAll

\* what GET /photometers answers for the locations: a place west or east
\* of the 5th meridian, with or without a local_timezone
LocationDetails(name) ==
    {[name |-> name, info_location |-> loc, info_tess |-> tess] :
        loc \in [longitude : {0 - 3, 13}, latitude : {40}, place : {"a place"}],
        tess \in {NoInfo} \cup [local_timezone : {"Europe/Madrid", "Etc/UTC"}]}

InitLocation ==
    /\ MacIdle
    /\ DbIdle
    /\ HistIdle
    /\ updPc = "start"
    /\ cmd = "location --timezone"
    /\ simulated = FALSE
    /\ names \in NameFilters
    /\ names_list \in SeqsUpTo(NameMacEntries, MaxRemote)
    /\ details_list \in {d \in SeqsUpTo(UNION {LocationDetails(n) : n \in PhotNames},
                                         MaxRemote) :
                            /\ Len(d) = Len(names_list)
                            /\ \A i \in 1 .. Len(d) : d[i].name = names_list[i].name}
    /\ csv = <<>>
    /\ RunIdle

\* mongodb.py location, the --timezone branch
LocationTimezone ==
    /\ updPc = "start"
    /\ cmd = "location --timezone"
    /\ LET got == mongo_get_location_info(Remote("ok"))
           input_list == IF names # {} THEN filter_by_names(got.val, names) ELSE got.val
           timezone_list == [i \in 1 .. Len(input_list) |->
                                remap_tzfinder(timezone(input_list)[i])]
       IN  /\ correlated' = got.correlated
           /\ IF got.err # "none"
              THEN /\ error' = got.err
                   /\ updPc' = "aborted"
                   /\ UNCHANGED <<mongo_input_list, files>>
              ELSE /\ mongo_input_list' = merge_info(input_list, timezone_list)
                   /\ files' = <<[path |-> "file", header |-> TZFINDER_HEADER,
                                  rows |-> timezone_list]>>
                   /\ updPc' = "done"
                   /\ UNCHANGED error
    /\ UNCHANGED <<dbVars, macVars, histVars, cmd, simulated, names, names_list, details_list, csv,
                   mongo_output_list, idx, attempts, requests, printed, log>>

NextLocation == LocationTimezone

\* what geolocator.reverse answers: None, or the address of a place
NominatimAnswers ==
    {NoneRow,
     [amenity |-> "Observatory", city |-> "Madrid", state |-> "Madrid", country |-> "Spain"],
     [road |-> "Main Street", house_number |-> "1", village |-> "Aldea",
      province |-> "Berlin", postcode |-> "10115", country |-> "Germany"]}

InitNominatim ==
    /\ MacIdle
    /\ DbIdle
    /\ HistIdle
    /\ updPc = "start"
    /\ cmd = "location --nominatim"
    /\ simulated = FALSE
    /\ names \in NameFilters
    /\ names_list \in SeqsUpTo(NameMacEntries, MaxRemote)
    /\ details_list \in {d \in SeqsUpTo(UNION {LocationDetails(n) : n \in PhotNames},
                                         MaxRemote) :
                            /\ Len(d) = Len(names_list)
                            /\ \A i \in 1 .. Len(d) : d[i].name = names_list[i].name}
    /\ csv = <<>>
    /\ RunIdle

\* mongodb.py location, the --nominatim branch.  requests holds what
\* Nominatim answered, location by location.
LocationNominatim ==
    /\ updPc = "start"
    /\ cmd = "location --nominatim"
    /\ LET got == mongo_get_location_info(Remote("ok"))
           input_list == IF names # {} THEN filter_by_names(got.val, names) ELSE got.val
       IN  /\ correlated' = got.correlated
           /\ IF got.err # "none"
              THEN /\ error' = got.err
                   /\ updPc' = "aborted"
                   /\ UNCHANGED <<mongo_input_list, files, requests, log>>
              ELSE \E answers \in [1 .. Len(input_list) -> NominatimAnswers] :
                      LET located == geolocate(answers, input_list)
                          remapped == [i \in 1 .. Len(located) |-> remap_nominatim(located[i])]
                          nominatim_list == [i \in 1 .. Len(located) |-> remapped[i].val]
                          missing == SelectSeq([i \in 1 .. Len(located) |-> i],
                                               LAMBDA i : located[i] = NoneRow)
                      IN  /\ requests' = answers
                          /\ log' = [k \in 1 .. Len(missing) |->
                                        [level |-> "error", name |-> input_list[missing[k]].name]]
                          /\ IF missing # <<>>
                             THEN /\ error' = "TypeError"
                                  /\ updPc' = "aborted"
                                  /\ mongo_input_list' = input_list
                                  /\ UNCHANGED files
                             ELSE /\ mongo_input_list' = merge_info(input_list, nominatim_list)
                                  /\ files' = <<[path |-> "file", header |-> NOMINATIM_HEADER,
                                                 rows |-> mongo_input_list']>>
                                  /\ updPc' = "done"
                                  /\ UNCHANGED error
    /\ UNCHANGED <<dbVars, macVars, histVars, cmd, simulated, names, names_list, details_list, csv,
                   mongo_output_list, idx, attempts, printed>>

NextNominatim == LocationNominatim

SpecNominatim == InitNominatim /\ [][NextNominatim]_vars

SpecLocation == InitLocation /\ [][NextLocation]_vars

SpecMongo == InitMongo /\ [][NextMongo]_vars

-----------------------------------------------------------------------------
(***************************************************************************)
(* zptess.py: the three generate commands over one content of the two      *)
(* databases.  Each command reads both databases again and selects its own *)
(* set of MAC keys.                                                        *)
(***************************************************************************)
MaxDbRows == 2

\* the MAC strings of the rows: four that formatted_mac accepts, two of
\* them spellings of one address, and one it rejects
DbMacs == {<<"a">>, <<"0", "A">>, <<"0">>, <<"A", "A">>, <<"g">>}

DbOutIdle ==
    /\ ran = {}
    /\ common_macs = {}
    /\ only_tessdb_macs = {}
    /\ only_zptess_macs = {}
    /\ fix_items = <<>>
    /\ ida_output = <<>>
    /\ group_input = <<>>
    /\ grouped = <<>>
    /\ flattened = <<>>

InitZptess ==
    /\ MacIdle
    /\ HistIdle
    /\ MongoIdle
    /\ dbPc = "read"
    /\ tessdb_db \in SeqsUpTo({PhotRow(m) : m \in DbMacs}, MaxDbRows)
    /\ zptess_db \in SeqsUpTo({PhotRow(m) : m \in DbMacs}, MaxDbRows)
    /\ idadb_db = <<>>
    /\ DbOutIdle

\* zptess.py generate_common
ZptessGenerateCommon ==
    /\ dbPc = "read"
    /\ "generate_common" \notin ran
    /\ common_macs' = zptess_common_macs(tessdb_db, zptess_db)
    /\ ran' = ran \cup {"generate_common"}
    /\ UNCHANGED <<macVars, histVars, mongoVars, dbPc, tessdb_db, zptess_db, idadb_db,
                   only_tessdb_macs, only_zptess_macs, fix_items, ida_output,
                   group_input, grouped, flattened>>

\* zptess.py generate_tessdb
ZptessGenerateTessdb ==
    /\ dbPc = "read"
    /\ "generate_tessdb" \notin ran
    /\ only_tessdb_macs' = zptess_only_tessdb_macs(tessdb_db, zptess_db)
    /\ ran' = ran \cup {"generate_tessdb"}
    /\ UNCHANGED <<macVars, histVars, mongoVars, dbPc, tessdb_db, zptess_db, idadb_db,
                   common_macs, only_zptess_macs, fix_items, ida_output,
                   group_input, grouped, flattened>>

\* zptess.py generate_zptess
ZptessGenerateZptess ==
    /\ dbPc = "read"
    /\ "generate_zptess" \notin ran
    /\ only_zptess_macs' = zptess_only_zptess_macs(tessdb_db, zptess_db)
    /\ ran' = ran \cup {"generate_zptess"}
    /\ UNCHANGED <<macVars, histVars, mongoVars, dbPc, tessdb_db, zptess_db, idadb_db,
                   common_macs, only_tessdb_macs, fix_items, ida_output,
                   group_input, grouped, flattened>>

NextZptess == ZptessGenerateCommon \/ ZptessGenerateTessdb \/ ZptessGenerateZptess

SpecZptess == InitZptess /\ [][NextZptess]_vars

-----------------------------------------------------------------------------
(***************************************************************************)
(* adhoc.py: the fix command over one content of tess_t (tessdb) and of    *)
(* summary_v (zptess).                                                     *)
(***************************************************************************)
\* SQL NULL in the zero_point column: a value no zero point takes
NULL == 0 - 1

\* the MAC strings of the rows, in ascending order
AdhocMacSeq == << <<"0", "A">>, <<"a">> >>

MacRank(mac) == CHOOSE i \in 1 .. Len(AdhocMacSeq) : AdhocMacSeq[i] = mac

Sessions == 1 .. 2

\* tess_t: an absurd zero point and a sound one
TessRows == [mac : Range(AdhocMacSeq), zero_point : {2, 20}, valid_since : {1}]

SummaryRows == [mac : Range(AdhocMacSeq), zero_point : {NULL, 19, 20}, session : Sessions]

\* adhoc.py _wrong_zp_photometers_from_tessdb: WHERE zp1 < 10 ORDER BY
\* mac_address.  The results the database may give: it orders the rows of
\* one MAC as it likes.
wrong_zp_photometers_from_tessdb(connection) ==
    LET found == {r \in Range(connection) : r.zero_point < 10}
    IN  {p \in Perms(found) :
            \A i, j \in 1 .. Len(p) : i < j => MacRank(p[i].mac) <= MacRank(p[j].mac)}

\* adhoc.py _zp_photometers_from_zptess with ORDER BY mac, session asc
zp_photometers_from_zptess_oldest_first(connection) ==
    LET found == {r \in Range(connection) : r.zero_point # NULL}
        sorted == {p \in Perms(found) :
                     \A i, j \in 1 .. Len(p) :
                        i < j => \/ MacRank(p[i].mac) < MacRank(p[j].mac)
                                 \/ /\ p[i].mac = p[j].mac
                                    /\ p[i].session <= p[j].session}
    IN  {[i \in 1 .. Len(p) |-> [mac |-> p[i].mac, zero_point |-> p[i].zero_point]] :
            p \in sorted}

\* adhoc.py _zp_photometers_from_zptess: WHERE zero_point IS NOT NULL
\* ORDER BY mac, session desc; the columns mac and zero_point.  The results
\* the database may give: it orders the rows of one MAC and session as it
\* likes.
zp_photometers_from_zptess(connection) ==
    LET found == {r \in Range(connection) : r.zero_point # NULL}
        sorted == {p \in Perms(found) :
                     \A i, j \in 1 .. Len(p) :
                        i < j => \/ MacRank(p[i].mac) < MacRank(p[j].mac)
                                 \/ /\ p[i].mac = p[j].mac
                                    /\ p[i].session >= p[j].session}
    IN  {[i \in 1 .. Len(p) |-> [mac |-> p[i].mac, zero_point |-> p[i].zero_point]] :
            p \in sorted}

\* adhoc.py fix: the items it renders, one per common MAC in sorted order
fix(tessdb_input_list, zptess_input_list) ==
    LET tessdb_dict == group_by_mac(tessdb_input_list)
        zptess_dict == group_by_mac(zptess_input_list)
        common_mac_keys == common_A_B_items(tessdb_dict, zptess_dict)
        sorted == SelectSeq(AdhocMacSeq, LAMBDA m : m \in common_mac_keys)
    IN  [i \in 1 .. Len(sorted) |->
            [mac |-> sorted[i],
             new_zp |-> DictGet(zptess_dict, sorted[i])[1].zero_point,
             old_zps |-> [k \in 1 .. Len(DictGet(tessdb_dict, sorted[i])) |->
                            DictGet(tessdb_dict, sorted[i])[k].zero_point]]]

InitAdhoc ==
    /\ MacIdle
    /\ HistIdle
    /\ MongoIdle
    /\ dbPc = "read"
    /\ tessdb_db \in {q \in SeqsUpTo(TessRows, MaxDbRows) :
                         \A i, j \in 1 .. Len(q) : q[i] = q[j] => i = j}
    /\ zptess_db \in {q \in SeqsUpTo(SummaryRows, MaxDbRows) :
                         \A i, j \in 1 .. Len(q) : q[i] = q[j] => i = j}
    /\ idadb_db = <<>>
    /\ DbOutIdle

\* adhoc.py fix
AdhocFix ==
    /\ dbPc = "read"
    /\ \E tessdb_input_list \in wrong_zp_photometers_from_tessdb(tessdb_db),
          zptess_input_list \in zp_photometers_from_zptess(zptess_db) :
          fix_items' = fix(tessdb_input_list, zptess_input_list)
    /\ ran' = ran \cup {"fix"}
    /\ dbPc' = "done"
    /\ UNCHANGED <<macVars, histVars, mongoVars, tessdb_db, zptess_db, idadb_db,
                   common_macs, only_tessdb_macs, only_zptess_macs, ida_output,
                   group_input, grouped, flattened>>

NextAdhoc == AdhocFix

SpecAdhoc == InitAdhoc /\ [][NextAdhoc]_vars

-----------------------------------------------------------------------------
(***************************************************************************)
(* idadb.py: generate_common over one content of tessdb and of             *)
(* ida_summary_t.                                                          *)
(***************************************************************************)
\* the MAC strings of the rows, in ascending order: two spellings of one
\* address and a string formatted_mac rejects
IdaMacSeq == << <<"0", "A">>, <<"a">>, <<"g">> >>

IdaMacRank(mac) == CHOOSE i \in 1 .. Len(IdaMacSeq) : IdaMacSeq[i] = mac

\* ida_summary_t: the zero point computed from the file and the one tessdb
\* had, absurd (2) or sound
IdaRows ==
    [mac : Range(IdaMacSeq), computed_zp_median : {20}, tessdb_zp_median : {2, 20, 21}]

\* ORDER BY mac
OrderedByMac(rows) ==
    \A i, j \in 1 .. Len(rows) : i < j => IdaMacRank(rows[i].mac) <= IdaMacRank(rows[j].mac)

\* idadb.py all_equal: TRUE when some file of the MAC has a computed zero
\* point that differs from the one of tessdb
all_equal(pair) ==
    \E i \in 1 .. Len(pair.v) : pair.v[i].computed_zp_median # pair.v[i].tessdb_zp_median

\* collections.Counter(values).most_common()[0][0]: the most frequent
\* value, the one met first among equally frequent ones
most_common_first(values) ==
    LET count(v) == Cardinality({i \in 1 .. Len(values) : values[i] = v})
        first(v) == CHOOSE i \in 1 .. Len(values) :
                       values[i] = v /\ \A j \in 1 .. i - 1 : values[j] # v
    IN  CHOOSE v \in Range(values) :
           \A w \in Range(values) :
              count(w) < count(v) \/ (count(w) = count(v) /\ first(v) <= first(w))

\* idadb.py plain_wrong_tessdb_zp
plain_wrong_tessdb_zp(pair) ==
    ~(most_common_first([i \in 1 .. Len(pair.v) |-> pair.v[i].tessdb_zp_median]) < 5)

\* idadb.py intra_ida_analisys: the two filters over idadb_input_list.items();
\* mac_list is not read
intra_ida_analisys(mac_list, idadb_input_list) ==
    SelectSeq(SelectSeq(idadb_input_list, all_equal), plain_wrong_tessdb_zp)

InitIdadb ==
    /\ MacIdle
    /\ HistIdle
    /\ MongoIdle
    /\ dbPc = "read"
    /\ tessdb_db \in {q \in SeqsUpTo({PhotRow(m) : m \in Range(IdaMacSeq)}, MaxDbRows) :
                         OrderedByMac(q)}
    /\ zptess_db = <<>>
    /\ idadb_db \in {q \in SeqsUpTo(IdaRows, MaxDbRows) : OrderedByMac(q)}
    /\ DbOutIdle

\* idadb.py generate_common, up to its write_csv call
IdadbGenerateCommon ==
    /\ dbPc = "read"
    /\ LET tessdb_input_list ==
               group_by_mac([i \in 1 .. Len(tessdb_db) |->
                                idadb_tessdb_remap_info(tessdb_db[i])])
           idadb_input_list ==
               group_by_mac([i \in 1 .. Len(idadb_db) |-> ida_remap_info(idadb_db[i])])
       IN  /\ common_macs' = common_A_B_items(tessdb_input_list, idadb_input_list)
           /\ ida_output' = intra_ida_analisys(common_macs', idadb_input_list)
    /\ ran' = ran \cup {"generate_common"}
    /\ dbPc' = "done"
    /\ UNCHANGED <<macVars, histVars, mongoVars, tessdb_db, zptess_db, idadb_db,
                   only_tessdb_macs, only_zptess_macs, fix_items, group_input, grouped,
                   flattened>>

NextIdadb == IdadbGenerateCommon

SpecIdadb == InitIdadb /\ [][NextIdadb]_vars

-----------------------------------------------------------------------------
(***************************************************************************)
(* dbutils.py: a list of rows grouped by MAC and flattened again, as       *)
(* crossdb.py does with the rows of tessdb.                                *)
(***************************************************************************)
MaxGroupRows == 3

\* the rows of the list: a remapped row, or None where the remap failed
GroupRows == [mac : {"AA", "BB"}, zero_point : {1, 2}] \cup {NoneRow}

InitGroup ==
    /\ MacIdle
    /\ HistIdle
    /\ MongoIdle
    /\ dbPc = "read"
    /\ tessdb_db = <<>>
    /\ zptess_db = <<>>
    /\ idadb_db = <<>>
    /\ ran = {}
    /\ common_macs = {}
    /\ only_tessdb_macs = {}
    /\ only_zptess_macs = {}
    /\ fix_items = <<>>
    /\ ida_output = <<>>
    /\ group_input \in SeqsUpTo(GroupRows, MaxGroupRows)
    /\ grouped = <<>>
    /\ flattened = <<>>

\* dbutils.py group_by_mac
GroupByMac ==
    /\ dbPc = "read"
    /\ grouped' = group_by_mac(group_input)
    /\ dbPc' = "grouped"
    /\ UNCHANGED <<macVars, histVars, mongoVars, tessdb_db, zptess_db, idadb_db, ran,
                   common_macs, only_tessdb_macs, only_zptess_macs, fix_items,
                   ida_output, group_input, flattened>>

\* dbutils.py filter_and_flatten
FilterAndFlatten ==
    /\ dbPc = "grouped"
    /\ flattened' = filter_and_flatten_all(grouped)
    /\ dbPc' = "flattened"
    /\ UNCHANGED <<macVars, histVars, mongoVars, tessdb_db, zptess_db, idadb_db, ran,
                   common_macs, only_tessdb_macs, only_zptess_macs, fix_items,
                   ida_output, group_input, grouped>>

NextGroup == GroupByMac \/ FilterAndFlatten

SpecGroup == InitGroup /\ [][NextGroup]_vars

-----------------------------------------------------------------------------
(***************************************************************************)
(* mongodb.py: the MAC format check over a list fetched from MongoDB.      *)
(***************************************************************************)
\* the groups of the MACs MongoDB holds: unpadded, padded, three digits,
\* signed, and not hexadecimal
CheckGroups ==
    {<<"a">>, <<"0", "A">>, <<"1", "a", "b">>, <<"-", "a">>, <<"g">>}

CheckMacs ==
    {JoinMac(gs) : gs \in [1 .. TessMacGroups -> CheckGroups]
                          \cup [1 .. TessMacGroups - 1 -> CheckGroups]}

InitCheck ==
    /\ MacIdle
    /\ DbIdle
    /\ HistIdle
    /\ updPc = "start"
    /\ cmd = "do_check_mac_format"
    /\ simulated = FALSE
    /\ names = {}
    /\ names_list = <<>>
    /\ details_list = <<>>
    /\ csv = <<>>
    /\ mongo_input_list \in {<<[name |-> "stars1", mac |-> m]>> : m \in CheckMacs}
    /\ correlated = 0
    /\ mongo_output_list = <<>>
    /\ idx = 0
    /\ error = "none"
    /\ attempts = <<>>
    /\ requests = <<>>
    /\ printed = <<>>
    /\ log = <<>>
    /\ files = <<>>

\* mongodb.py do_check_mac_format
DoCheckMacFormat ==
    /\ updPc = "start"
    /\ cmd = "do_check_mac_format"
    /\ \E r \in {do_check_mac_format(mongo_input_list)} :
          log' = IF r = <<>>
                 THEN <<[level |-> "info", name |-> "", text |-> "properly formatted",
                         mac |-> <<>>, formatted |-> <<>>]>>
                 ELSE r
    /\ updPc' = "done"
    /\ UNCHANGED <<dbVars, macVars, histVars, cmd, simulated, names, names_list, details_list,
                   csv, mongo_input_list, correlated, mongo_output_list, idx, error,
                   attempts, requests, printed, files>>

NextCheck == DoCheckMacFormat

SpecCheck == InitCheck /\ [][NextCheck]_vars

-----------------------------------------------------------------------------
(***************************************************************************)
(* The properties.                                                         *)
(***************************************************************************)

\* C2: formatted_mac is a canonicalisation.  Applied to its own result it
\* returns that result, and two accepted strings whose groups denote the
\* same numbers (differing in letter case or leading zeros only) get the
\* same result.
C2_FormattedMacCanonical ==
    (macPc = "formatted" /\ fmt1.err = "none")
        => /\ refmt = fmt1
           /\ (fmt2.err = "none" /\ MacNumbers(mac1) = MacNumbers(mac2)) => fmt2 = fmt1

\* Two different spellings of a two-group address, neither of them the
\* canonical one, have been formatted to one string.
C2_Witness ==
    /\ macPc = "formatted"
    /\ mac1 # mac2
    /\ Len(SplitMac(mac1)) = 2
    /\ fmt1.err = "none" /\ fmt2.err = "none"
    /\ MacNumbers(mac1) = MacNumbers(mac2)
    /\ fmt1.val # mac1 /\ fmt1.val # mac2
    /\ fmt2 = fmt1
    /\ refmt = fmt1

\* C3: whichever tool matches the MACs of two stores, two spellings of one
\* device address that formatted_mac accepts (they differ in letter case
\* or zero padding only) compare equal and are treated as one photometer.
C3_SpellingsMatchInEveryTool ==
    (macPc = "matched" /\ Accepted(mac1) /\ Accepted(mac2)
        /\ "-" \notin Range(mac1) \cup Range(mac2)
        /\ MacNumbers(mac1) = MacNumbers(mac2))
        => matched

\* C1: whatever name_to_mac_t holds, a related-history call stops after a
\* bounded number of queries.  Every pass of its loop that does not break
\* found exactly one row, and a call that ends never finds a row twice, so
\* a call that ends makes at most one query per row of the table and one
\* more; a call that makes more than that never ends.  The classifications
\* built on these calls never hang either.
C1_RelatedHistoryTerminates ==
    /\ hQueries <= Len(table) + 1
    /\ \A i \in 1 .. Len(sections) : sections[i].queries <= Len(table) + 1
    /\ selStatus # "hang"

\* C10: the classification is a partition of the not-easy photometers:
\* every row photometers_not_easy returns is returned by exactly one of
\* photometers_repaired, photometers_renamed and photometers_complicated.
C10_ClassificationPartition ==
    (histPc = "classified" /\ classification = "complicated" /\ selStatus = "done")
        => \A row \in total :
              \/ row \in only_repaired /\ row \notin only_renamed /\ row \notin Range(selected)
              \/ row \notin only_repaired /\ row \in only_renamed /\ row \notin Range(selected)
              \/ row \notin only_repaired /\ row \notin only_renamed /\ row \in Range(selected)

\* C4: when the photometers_list response and the photometers response
\* have different lengths, mongo_get_all raises ListLengthMismatchError:
\* it returns no list, and it has given no entry a mac.
C4_ListLengthMismatchAborts ==
    (updPc # "start" /\ Len(names_list) # Len(details_list))
        => /\ updPc = "aborted"
           /\ error = "ListLengthMismatchError"
           /\ mongo_input_list = <<>>
           /\ correlated = 0

C4_Witness ==
    /\ updPc = "aborted"
    /\ error = "ListLengthMismatchError"
    /\ Len(names_list) = 2
    /\ Len(details_list) = 1
    /\ names_list[1].name = details_list[1].name
    /\ names_list[1].mac # NoMac

\* C5: get_item raises DuplicatesError for a name that more than one row
\* of the lookup list has, and a do_update_* loop that reaches a CSV row of
\* such a name ends there: the loop never gets past the row, no request
\* carries its name, and no request is sent for a later row.
C5_DuplicatesAbortTheRun ==
    cmd \in UpdateCmds
        => /\ \A n \in PhotNames :
                 Len(filter_by_name(mongo_input_list, n)) > 1
                     => get_item(mongo_input_list, n, "mac").err = "DuplicatesError"
           /\ \A i \in 1 .. Len(mongo_output_list) :
                 Len(filter_by_name(mongo_input_list, mongo_output_list[i].name)) > 1
                     => /\ idx <= i
                        /\ updPc # "done"
                        /\ (updPc = "aborted" /\ idx = i) => error = "DuplicatesError"
                        /\ \A k \in 1 .. Len(attempts) : attempts[k].idx < i
                        /\ Len(requests) < i
                        /\ \A k \in 1 .. Len(requests) :
                              requests[k].name # mongo_output_list[i].name

C5_Witness ==
    /\ cmd \in UpdateCmds
    /\ ~simulated
    /\ updPc = "aborted"
    /\ error = "DuplicatesError"
    /\ idx = 1
    /\ Len(mongo_output_list) = 2
    /\ mongo_output_list[2].name # mongo_output_list[1].name
    /\ requests = <<>>

\* C6: a CSV row whose MAC formatted_mac rejects is logged and skipped by
\* remap_mac, and the run goes on with the other rows: the list the loop
\* goes through is the accepted rows, their MACs formatted, filtered by
\* --names.
C6_RejectedMacRowSkipped ==
    (cmd \in RemapCmds /\ updPc # "start"
        /\ error \notin {"ListLengthMismatchError", "NamesMismatchError"})
        => LET accepted == SelectSeq(csv, LAMBDA row : Accepted(row.mac))
               remapped == [i \in 1 .. Len(accepted) |->
                               [accepted[i] EXCEPT !.mac = formatted_mac(@).val]]
               expected == IF names # {}
                           THEN SelectSeq(remapped, LAMBDA row : row.name \in names)
                           ELSE remapped
           IN  /\ error # "UnboundLocalError"
               /\ mongo_output_list = expected
               /\ \A i \in 1 .. Len(csv) :
                     ~Accepted(csv[i].mac)
                         => \E j \in 1 .. Len(log) :
                               log[j] = [level |-> "error", name |-> csv[i].name]

C8_SimulatedSendsNothing ==
    simulated
        => /\ requests = <<>>
           /\ \A k \in 1 .. Len(attempts) : attempts[k].err # "HTTPError"
           /\ Len(printed)
                 = Cardinality({k \in 1 .. Len(attempts) : attempts[k].err = "none"})

C8_Witness ==
    /\ simulated
    /\ updPc = "done"
    /\ cmd \in UpdateCmds
    /\ Len(printed) = 2
    /\ requests = <<>>

\* C9: all --diff-file writes four files: in_file_not_in_mongo holds
\* exactly the CSV rows whose name MongoDB does not have,
\* in_mongo_not_in_file exactly the MongoDB rows whose name the CSV file
\* does not have, common_file and common_mongo exactly the CSV rows and the
\* MongoDB rows of the names both have.
C9_DiffFilesHoldTheirRows ==
    (cmd = "do_diff_all" /\ updPc = "done")
        => LET mongo_names == {mongo_input_list[i].name : i \in 1 .. Len(mongo_input_list)}
               csv_names == {csv[i].name : i \in 1 .. Len(csv)}
               File(p) == (CHOOSE f \in Range(files) : f.path = p).rows
               Times(x, rows) == Cardinality({i \in 1 .. Len(rows) : rows[i] = x})
               SameRows(a, b) == \A x \in Range(a) \cup Range(b) : Times(x, a) = Times(x, b)
           IN  /\ {files[i].path : i \in 1 .. Len(files)}
                     = {"in_file_not_in_mongo", "in_mongo_not_in_file",
                        "common_file", "common_mongo"}
               /\ SameRows(File("in_file_not_in_mongo"),
                           SelectSeq(csv, LAMBDA row : row.name \notin mongo_names))
               /\ SameRows(File("in_mongo_not_in_file"),
                           SelectSeq(mongo_input_list, LAMBDA row : row.name \notin csv_names))
               /\ SameRows(File("common_file"),
                           SelectSeq(csv, LAMBDA row : row.name \in mongo_names))
               /\ SameRows(File("common_mongo"),
                           SelectSeq(mongo_input_list, LAMBDA row : row.name \in csv_names))

\* C11: every row photometers_easy returns has a name LIKE 'stars%', a
\* MAC that exactly one row of name_to_mac_t has and a name that exactly
\* one row has, and is not returned by photometers_not_easy.
C11_EasyRowsAreAlone ==
    (histPc = "classified" /\ classification = "easy")
        => \A i \in 1 .. Len(selected) :
              /\ LikeStars(selected[i].name)
              /\ Cardinality({j \in 1 .. Len(table) : table[j].mac = selected[i].mac}) = 1
              /\ Cardinality({j \in 1 .. Len(table) : table[j].name = selected[i].name}) = 1
              /\ selected[i] \in Range(table)
              /\ selected[i] \notin Range(photometers_not_easy(table))

C11_Witness ==
    /\ histPc = "classified"
    /\ classification = "easy"
    /\ Len(table) = 3
    /\ Len(selected) = 1
    /\ Len(photometers_not_easy(table)) = 2

\* C12: once generate_common, generate_tessdb and generate_zptess have run
\* over the same two databases, every MAC key of the grouped tessdb or
\* zptess rows is in exactly one of common_macs, only_tessdb_macs and
\* only_zptess_macs, the three sets are pairwise disjoint and together they
\* are the union of the keys.
C12_KeysSelectedExactlyOnce ==
    (ran = {"generate_common", "generate_tessdb", "generate_zptess"})
        => LET keys == DictKeys(zptess_tessdb_input_list(tessdb_db))
                           \cup DictKeys(zptess_zptess_input_list(zptess_db))
           IN  /\ common_macs \cap only_tessdb_macs = {}
               /\ common_macs \cap only_zptess_macs = {}
               /\ only_tessdb_macs \cap only_zptess_macs = {}
               /\ common_macs \cup only_tessdb_macs \cup only_zptess_macs = keys
               /\ \A m \in keys :
                     Cardinality({c \in {1, 2, 3} :
                                     m \in <<common_macs, only_tessdb_macs,
                                             only_zptess_macs>>[c]}) = 1

C12_Witness ==
    /\ ran = {"generate_common", "generate_tessdb", "generate_zptess"}
    /\ common_macs # {}
    /\ only_tessdb_macs # {}
    /\ only_zptess_macs # {}
    /\ \E i \in 1 .. Len(tessdb_db), j \in 1 .. Len(zptess_db) :
          /\ tessdb_db[i].mac # zptess_db[j].mac
          /\ formatted_mac(tessdb_db[i].mac).val \in common_macs
          /\ formatted_mac(zptess_db[j].mac).val \in common_macs

\* C13: group_by skips the None rows and puts every other row into
\* exactly one group, the one of its own row[key], in input order: each
\* group is the input restricted to the rows of its key, no key has two
\* groups, and the group sizes add up to the number of non-None rows.
\* filter_and_flatten of the result returns every row as often as the input
\* holds it.
C13_GroupByPartitionsTheRows ==
    (dbPc = "flattened")
        => /\ \A i \in 1 .. Len(grouped) :
                 grouped[i].v =
                     SelectSeq(group_input,
                               LAMBDA row : row # NoneRow /\ row.mac = grouped[i].k)
           /\ \A i, j \in 1 .. Len(grouped) : grouped[i].k = grouped[j].k => i = j
           /\ \A n \in 1 .. Len(group_input) :
                 group_input[n] # NoneRow => group_input[n].mac \in DictKeys(grouped)
           /\ Cardinality({p \in (1 .. Len(grouped)) \X (1 .. MaxGroupRows + 1) :
                              p[2] <= Len(grouped[p[1]].v)})
                 = Cardinality({n \in 1 .. Len(group_input) : group_input[n] # NoneRow})
           /\ \A row \in Range(group_input) \cup Range(flattened) :
                 Cardinality({n \in 1 .. Len(flattened) : flattened[n] = row})
                     = IF row = NoneRow THEN 0
                       ELSE Cardinality({n \in 1 .. Len(group_input) :
                                            group_input[n] = row})

C13_Witness ==
    /\ dbPc = "flattened"
    /\ Len(group_input) = 3
    /\ group_input[1] = NoneRow
    /\ group_input[2] # NoneRow
    /\ group_input[3] # NoneRow
    /\ group_input[2].mac = group_input[3].mac
    /\ group_input[2].zero_point > group_input[3].zero_point
    /\ Len(grouped) = 1
    /\ Len(flattened) = 2

\* C14: name_mac_current_history returns the rows of the name (or of the
\* MAC) in valid_since order; row i is flagged '-' exactly when its
\* valid_until differs from the valid_since of row i+1, and '+' otherwise,
\* the last row always; break_end_tstamps and break_start_tstamps are as
\* long as there are '-' rows; truncated is true exactly when the last row
\* is Expired.
C14_CurrentHistoryFlags ==
    (histPc = "walking")
        => LET n == Len(history)
               mine(r) == IF hArgs.name # None THEN r.name = hArgs.name
                          ELSE r.mac = hArgs.mac
               dashes == {i \in 1 .. n : history[i].contiguous_flag = "-"}
           IN  /\ [i \in 1 .. n |-> history[i].row] = SelectSeq(table, mine)
               /\ \A i \in 1 .. n - 1 :
                     history[i].row.valid_since <= history[i + 1].row.valid_since
               /\ \A i \in 1 .. n :
                     history[i].contiguous_flag
                        = IF i < n /\ history[i].row.valid_until
                                          # history[i + 1].row.valid_since
                          THEN "-" ELSE "+"
               /\ Len(break_end_tstamps) = Cardinality(dashes)
               /\ Len(break_start_tstamps) = Cardinality(dashes)
               /\ truncated <=> (history[n].row.valid_state = "Expired")

C14_Witness ==
    /\ histPc = "walking"
    /\ Len(history) = 2
    /\ history[1].contiguous_flag = "-"
    /\ Len(break_end_tstamps) = 1
    /\ truncated
    /\ history[2].row.valid_until = Forever
    /\ history[1].row.valid_state = "Current"

\* C15: for every MAC that is_tess_mac accepts, formatted_mac returns a MAC
\* that is_mac accepts: six groups of exactly two upper-case hexadecimal
\* digits, 17 characters.  So whenever do_check_mac_format logs that a MAC
\* is not properly formatted, the MAC it proposes is a strict one.
C15_FormattedTessMacIsStrict ==
    (updPc = "done" /\ cmd = "do_check_mac_format")
        => /\ \A i \in 1 .. Len(mongo_input_list) :
                 is_tess_mac(mongo_input_list[i].mac)
                    => LET f == formatted_mac(mongo_input_list[i].mac)
                           groups == SplitMac(f.val)
                       IN  /\ f.err = "none"
                           /\ is_mac(f.val)
                           /\ Len(f.val) = StrictMacLen
                           /\ Len(groups) = TessMacGroups
                           /\ \A g \in 1 .. Len(groups) :
                                 /\ Len(groups[g]) = 2
                                 /\ \A c \in 1 .. 2 :
                                       \E d \in 1 .. 16 : UpperDigits[d] = groups[g][c]
           /\ \A k \in 1 .. Len(log) :
                 log[k].text = "not properly formatted" => is_mac(log[k].formatted)

\* C16: every row photometers_repaired returns belongs to a name that
\* name_to_mac_t binds to at least two different MAC addresses, and every
\* row photometers_renamed returns belongs to a MAC that it binds to at
\* least two different names.
C16_RepairedAndRenamedAreBoundTwice ==
    /\ (histPc = "classified" /\ classification = "repaired" /\ selStatus = "done")
          => \A i \in 1 .. Len(selected) :
                Cardinality({table[j].mac :
                                j \in {k \in 1 .. Len(table) :
                                          table[k].name = selected[i].name}}) >= 2
    /\ (histPc = "classified" /\ classification = "renamed" /\ selStatus = "done")
          => \A i \in 1 .. Len(selected) :
                Cardinality({table[j].name :
                                j \in {k \in 1 .. Len(table) :
                                          table[k].mac = selected[i].mac}}) >= 2

\* C17: without --output-file, the rows the history command logs under
\* each BROKEN END / BROKEN START TIMESTAMP RELATED HISTORY banner are the
\* related history computed for that banner's own break timestamp, the rows
\* the CSV output lists for that break.
C17_ConsoleShowsEachBreaksHistory ==
    (histPc = "reported" /\ console # <<>>)
        => \A i \in 1 .. Len(console) :
              console[i].banner \in {"BROKEN END TIMESTAMP RELATED HISTORY",
                                     "BROKEN START TIMESTAMP RELATED HISTORY"}
                 => /\ console[i].rows = global_history[i].rows
                    /\ \E k \in 1 .. Len(sections) :
                          /\ sections[k].tag = global_history[i].tag
                          /\ sections[k].tstamp = console[i].tstamp
                          /\ sections[k].rows = console[i].rows

\* C18: in adhoc fix the new zero point proposed for a MAC is the
\* zero_point of a summary row of that MAC with the latest session among
\* the rows of that MAC that have a zero point; every MAC with a wrong zero
\* point in tessdb and a zero point in zptess gets one item.
C18_NewZpIsLatestCalibration ==
    (dbPc = "done" /\ "fix" \in ran)
        => /\ \A i \in 1 .. Len(fix_items) :
                 LET rows == {r \in Range(zptess_db) :
                                r.mac = fix_items[i].mac /\ r.zero_point # NULL}
                 IN  \E r \in rows :
                        /\ \A q \in rows : q.session <= r.session
                        /\ fix_items[i].new_zp = r.zero_point
           /\ {fix_items[i].mac : i \in 1 .. Len(fix_items)}
                 = {r.mac : r \in {x \in Range(tessdb_db) : x.zero_point < 10}}
                      \cap {r.mac : r \in {x \in Range(zptess_db) : x.zero_point # NULL}}

C18_Witness ==
    /\ dbPc = "done"
    /\ Len(fix_items) = 1
    /\ Len(zptess_db) = 2
    /\ zptess_db[1].mac = zptess_db[2].mac
    /\ zptess_db[1].session < zptess_db[2].session
    /\ zptess_db[1].zero_point # NULL
    /\ zptess_db[2].zero_point # NULL
    /\ zptess_db[1].zero_point # zptess_db[2].zero_point
    /\ fix_items[1].new_zp = zptess_db[2].zero_point

\* C18 as the specification words it: the new zero point is the zero_point
\* of the summary row with the latest session for that MAC, whichever rows
\* of the MAC have a zero point.
C18_NewZpIsLatestSession ==
    (dbPc = "done" /\ "fix" \in ran)
        => \A i \in 1 .. Len(fix_items) :
              LET rows == {r \in Range(zptess_db) : r.mac = fix_items[i].mac}
              IN  \E r \in rows :
                     /\ \A q \in rows : q.session <= r.session
                     /\ fix_items[i].new_zp = r.zero_point

\* C19: idadb generate_common hands to write_csv only MACs that both tessdb
\* and idadb hold: every MAC kept by intra_ida_analisys is in common_macs.
C19_IdaOutputWithinCommon ==
    (dbPc = "done" /\ "generate_common" \in ran)
        => DictKeys(ida_output) \subseteq common_macs

\* C20: location --timezone writes, for every selected MongoDB location,
\* one row that carries the MongoDB timezone in column timezone and the
\* computed timezone in column tzfinder_timezone, with the other columns
\* of TZFINDER_HEADER.
C20_TimezoneFileCarriesBothTimezones ==
    (updPc = "done" /\ cmd = "location --timezone")
        => LET locations == mongo_get_location_info(Remote("ok")).val
               chosen == IF names # {} THEN filter_by_names(locations, names)
                           ELSE locations
               rows == files[1].rows
           IN  /\ Len(rows) = Len(chosen)
               /\ \A i \in 1 .. Len(rows) :
                     /\ \A c \in 1 .. Len(TZFINDER_HEADER) :
                           TZFINDER_HEADER[c] \in DOMAIN rows[i]
                     /\ rows[i].name = chosen[i].name
                     /\ rows[i].timezone = chosen[i].timezone
                     /\ rows[i].tzfinder_timezone
                           = timezone_at(chosen[i].longitude, chosen[i].latitude)

\* C21: in location --nominatim a location for which Nominatim returns no
\* result is logged and skipped: the run ends without an exception, and
\* every remaining location is written to the CSV, row i of the MongoDB
\* list merged with geocoding result i of the same photometer.
C21_UnlocatedRowSkipped ==
    (updPc \in {"done", "aborted"} /\ cmd = "location --nominatim")
        => LET locations == mongo_get_location_info(Remote("ok")).val
               chosen == IF names # {} THEN filter_by_names(locations, names)
                           ELSE locations
               found == SelectSeq([i \in 1 .. Len(chosen) |-> i],
                                  LAMBDA i : requests[i] # NoneRow)
           IN  /\ error = "none"
               /\ Len(log) = Len(chosen) - Len(found)
               /\ Len(files) = 1
               /\ Len(files[1].rows) = Len(found)
               /\ \A k \in 1 .. Len(found) :
                     LET row == files[1].rows[k]
                         geo == remap_location(requests[found[k]], chosen[found[k]])
                     IN  /\ row.name = chosen[found[k]].name
                         /\ row.place = chosen[found[k]].place
                         /\ row.timezone = chosen[found[k]].timezone
                         /\ row.nominatim_place = geo.place
                         /\ row.nominatim_town = geo.town
                         /\ row.nominatim_timezone = geo.timezone

=============================================================================
